---- MODULE Spec2Model ----
(***************************************************************************)
(* MoneyMate: the transaction ledger (TransactionManager), its undo/redo   *)
(* history, the recurring-transaction materialisation, the application     *)
(* flows of FinanceApp that drive them, and the budget registry            *)
(* (BudgetManager) with the budget panel drawn from it.                    *)
(*                                                                         *)
(* Amounts are integers (minor currency units).  A calendar date is the    *)
(* number of days since 1 January of the first year of the modelled        *)
(* window (years of 365 days); the order of the ISO strings the code       *)
(* compares is the order of these numbers.  Wall-clock time is in hours.   *)
(***************************************************************************)
EXTENDS Integers, Sequences, FiniteSets, TLC

VARIABLES
    transactions,   \* TransactionManager.transactions: the live set
    history,        \* TransactionManager.history: JSON snapshots
    historyIndex,   \* TransactionManager.historyIndex (0-based cursor, -1 when empty)
    initialized,    \* TransactionManager.initialized
    store,          \* the key-value store: keys 'transactions', 'lastRecurringCheck', 'budgets'
    now,            \* Date.now(), in hours
    nextTs,         \* source of the fresh values Date.now() + Math.random()
    result,         \* value returned by the last undo()/redo()
    log,            \* the last completed ledger calls, newest last
    nMut,           \* number of add/delete calls performed so far
    mutRun,         \* add/delete calls since the last successful undo
    shifted,        \* saveHistory has evicted a snapshot (history.shift())
    failures,       \* store writes that failed so far
    inflight,       \* async ledger calls started and not yet finished
    editingTimestamp, \* FinanceApp.editMode / editingTimestamp
    cloneLog,       \* <<timestamp of the cloned transaction, day>> per clone made
    gateLog,        \* the runs of checkRecurringTransactions: <<now, gate opened, variant>>
    budgets,        \* BudgetManager.budgets: <<category, limit>> entries in insertion order
    budgetsInitialized, \* BudgetManager.initialized
    expected,       \* the limits set and not deleted or cleared since, by category
    got,            \* the last BudgetManager.get: its category and the value returned
    rendered,       \* the budget panel as renderBudgets last drew it
    toast,          \* the last error toast FinanceApp showed, Null before the first
    trend,          \* the last result of getSpendingTrend, with the zone it ran in
    sample,         \* the transactions handed to FinancialHealthScore
    health,         \* the last result of calculateScore
    currentTransactions, \* FinanceApp.currentTransactions: the list being paged
    pageShown,      \* the page renderTransactions last drew
    confirmCallback, \* what the Yes button of the confirm modal will run, if set
    uncaught,       \* the last exception that escaped a handler
    exported,       \* the transactions chosen for export, and the text toCSV made of them
    db,             \* IndexedDB: the users, the settings store (keys and values), the login saved
    localStorage,   \* window.localStorage: the guest flags and the remembered login
    sessionStorage, \* window.sessionStorage: the login of the browser session
    auth,           \* the AuthManager of the page: users by key, currentUser
    app             \* the page shown; on index.html FinanceApp.isGuestMode, currentUser, and
                    \* what init wrote to the console

vars == <<transactions, history, historyIndex, initialized, store, now, nextTs,
          result, log, nMut, mutRun, shifted, failures,
          inflight, editingTimestamp, cloneLog, gateLog,
          budgets, budgetsInitialized, expected, got, rendered,
          toast, trend, sample, health, currentTransactions, pageShown,
          confirmCallback, uncaught, exported, db,
          localStorage, sessionStorage, auth, app>>

browserVars == <<localStorage, sessionStorage, auth, app>>

budgetVars == <<budgets, budgetsInitialized, expected, got, rendered>>

viewVars == <<trend, sample, health, currentTransactions, pageShown, exported, db,
              browserVars>>

auxVars == <<toast, trend, sample, health, currentTransactions, pageShown,
             confirmCallback, uncaught, exported, db, browserVars>>

-----------------------------------------------------------------------------
(* Bounds of the model *)

MaxOps == 3
MaxTs == 2
MaxClones == 2
MaxStoreFailures == 1
LogLen == 3
MaxInflight == 2
MaxLoads == 2
MaxAppLoads == 1
MaxHours == 35
MaxUsers == 1

(* Program constants *)

maxHistory == 20
oneDay == 24
twentyFourHours == 24
thirtyDays == 720

-----------------------------------------------------------------------------
(* Values *)

Null == <<>>
Some(v) == <<v>>

Min(a, b) == IF a < b THEN a ELSE b

MonthStart == <<0, 31, 59, 90, 120, 151, 181, 212, 243, 273, 304, 334>>

MonthOf(n) == CHOOSE m \in 1..12 :
                 /\ MonthStart[m] <= n % 365
                 /\ (m = 12 \/ n % 365 < MonthStart[m + 1])

\* new Date(t.date); setMonth(getMonth() + 1): same day-of-month in the next
\* month, a day past the month's end rolling over into the following month.
AddMonth(n) ==
    LET m == MonthOf(n)
        d == (n % 365) - MonthStart[m]
        y == n \div 365
    IN IF m = 12 THEN (y + 1) * 365 + d
                 ELSE y * 365 + MonthStart[m + 1] + d

\* new Date().toISOString().split('T')[0]
today == now \div 24

\* JSON.stringify of one transaction / of the live set, and JSON.parse back
StringifyTx(t) == <<t.type, t.amount, t.category, t.date, t.recurring, t.timestamp>>

ParseTx(s) == [type |-> s[1], amount |-> s[2], category |-> s[3], date |-> s[4],
               recurring |-> s[5], timestamp |-> s[6]]

JSONstringify(txs) == [i \in 1..Len(txs) |-> StringifyTx(txs[i])]

JSONparse(snap) == [i \in 1..Len(snap) |-> ParseTx(snap[i])]

-----------------------------------------------------------------------------
(* The ledger as a value, and its methods as functions of it *)

L == [transactions |-> transactions, history |-> history,
      historyIndex |-> historyIndex, initialized |-> initialized,
      store |-> store, shifted |-> shifted, failures |-> failures]

Install(M) ==
    /\ transactions' = M.transactions
    /\ history' = M.history
    /\ historyIndex' = M.historyIndex
    /\ initialized' = M.initialized
    /\ store' = M.store
    /\ shifted' = M.shifted
    /\ failures' = M.failures

\* saveHistory without the history.shift() branch
saveHistoryNoEvict(M) ==
    LET sliced == SubSeq(M.history, 1, Min(M.historyIndex + 1, Len(M.history)))
    IN [M EXCEPT !.history = Append(sliced, JSONstringify(M.transactions)),
                 !.historyIndex = @ + 1]

\* saveHistory without the history.slice(0, historyIndex + 1)
saveHistoryNoSlice(M) ==
    LET pushed == Append(M.history, JSONstringify(M.transactions))
    IN IF Len(pushed) > maxHistory
       THEN [M EXCEPT !.history = Tail(pushed), !.shifted = TRUE]
       ELSE [M EXCEPT !.history = pushed, !.historyIndex = @ + 1]

\* saveHistory advancing the cursor after history.shift() too
saveHistoryAlwaysAdvance(M) ==
    LET sliced == SubSeq(M.history, 1, Min(M.historyIndex + 1, Len(M.history)))
        pushed == Append(sliced, JSONstringify(M.transactions))
    IN IF Len(pushed) > maxHistory
       THEN [M EXCEPT !.history = Tail(pushed), !.historyIndex = @ + 1, !.shifted = TRUE]
       ELSE [M EXCEPT !.history = pushed, !.historyIndex = @ + 1]

saveHistory(M) ==
    LET sliced == SubSeq(M.history, 1, Min(M.historyIndex + 1, Len(M.history)))
        pushed == Append(sliced, JSONstringify(M.transactions))
    IN IF Len(pushed) > maxHistory
       THEN [M EXCEPT !.history = Tail(pushed), !.shifted = TRUE]
       ELSE [M EXCEPT !.history = pushed, !.historyIndex = @ + 1]

\* StorageManager.set never throws: a failed write returns false and leaves
\* the stored value as it was.
saveToStorage(M, ok) ==
    IF ok
    THEN [M EXCEPT !.store.transactions = Some(JSONstringify(M.transactions))]
    ELSE [M EXCEPT !.failures = @ + 1]

loadFromStorage(M) ==
    saveHistory([M EXCEPT !.transactions =
                    IF M.store.transactions = Null THEN <<>>
                    ELSE JSONparse(M.store.transactions[1])])

init(M) ==
    IF ~M.initialized
    THEN [loadFromStorage(M) EXCEPT !.initialized = TRUE]
    ELSE M

\* this.transactions.push(transaction)
push(M, T) == [M EXCEPT !.transactions = Append(@, T)]

\* this.transactions = this.transactions.filter(t => t.timestamp !== timestamp)
filterOut(M, ts) ==
    LET keep(t) == t.timestamp # ts
    IN [M EXCEPT !.transactions = SelectSeq(@, keep)]

\* add giving up, history unrecorded, when the store write fails
addAbortsOnFailedWrite(M, T, ok) ==
    IF ok THEN saveHistory(saveToStorage(push(init(M), T), ok))
    ELSE saveToStorage(push(init(M), T), ok)

addOp(M, T, ok) == saveHistory(saveToStorage(push(init(M), T), ok))

\* delete that persists the live set and pushes no snapshot
deleteWithoutSnapshot(M, ts, ok) == saveToStorage(filterOut(init(M), ts), ok)

deleteOp(M, ts, ok) == saveHistory(saveToStorage(filterOut(init(M), ts), ok))

canUndoOf(M) == M.historyIndex > 0

canRedoOf(M) == M.historyIndex < Len(M.history) - 1

canUndo == canUndoOf(L)

canRedo == canRedoOf(L)

\* undo persisting the live set whether or not it could undo
undoAlwaysPersists(M, ok) ==
    saveToStorage(IF canUndoOf(M)
                  THEN [M EXCEPT !.historyIndex = @ - 1,
                                 !.transactions = JSONparse(M.history[M.historyIndex])]
                  ELSE M, ok)

\* this.historyIndex--; this.transactions = JSON.parse(this.history[this.historyIndex])
stepBack(M) ==
    [M EXCEPT !.historyIndex = @ - 1,
              !.transactions = JSONparse(M.history[M.historyIndex])]

\* this.historyIndex++; this.transactions = JSON.parse(this.history[this.historyIndex])
stepForward(M) ==
    [M EXCEPT !.historyIndex = @ + 1,
              !.transactions = JSONparse(M.history[M.historyIndex + 2])]

\* undo that leaves the stored value as it was
undoNeverPersists(M, ok) ==
    IF canUndoOf(M) THEN stepBack(M) ELSE M

undoOp(M, ok) ==
    IF canUndoOf(M) THEN saveToStorage(stepBack(M), ok) ELSE M

\* redo moving the cursor without reloading the live set
redoKeepsLiveSet(M, ok) ==
    IF canRedoOf(M)
    THEN saveToStorage([M EXCEPT !.historyIndex = @ + 1], ok)
    ELSE M

redoOp(M, ok) ==
    IF canRedoOf(M) THEN saveToStorage(stepForward(M), ok) ELSE M

\* await this.init(); return [...this.transactions]
getAll(M) == init(M).transactions

\* getStats: filter by type, then reduce((sum, t) => sum + t.amount, 0)
RECURSIVE reduceAmount(_, _)
reduceAmount(txs, sum) ==
    IF txs = <<>> THEN sum
    ELSE reduceAmount(Tail(txs), sum + Head(txs).amount)

filterType(txs, type) ==
    LET isType(t) == t.type = type
    IN SelectSeq(txs, isType)

\* getStats summing every transaction as an expense
getStatsNoFilter(M) ==
    LET income == reduceAmount(filterType(M.transactions, "income"), 0)
        expense == reduceAmount(M.transactions, 0)
    IN [income |-> income, expense |-> expense, balance |-> income - expense]

getStats(M) ==
    LET income == reduceAmount(filterType(M.transactions, "income"), 0)
        expense == reduceAmount(filterType(M.transactions, "expense"), 0)
    IN [income |-> income, expense |-> expense, balance |-> income - expense]

\* const recurringTransactions = this.transactions.filter(t => t.recurring)
recurringOf(M) ==
    LET isRecurring(t) == t.recurring
    IN SelectSeq(M.transactions, isRecurring)

isDue(t, day) == AddMonth(t.date) <= day

\* the clone keeping the timestamp of the transaction it is made from
cloneKeepsTimestamp(t, day, ts) == [t EXCEPT !.date = day]

\* { ...t, date: today, timestamp: Date.now() + Math.random() }
cloneOf(t, day, ts) == [t EXCEPT !.date = day, !.timestamp = ts]

\* the for-loop of processRecurring over the array taken before the loop;
\* oks[i] tells whether the store write of the i-th iteration's add succeeds
RECURSIVE recurLoop(_, _, _, _, _, _)
recurLoop(M, rec, i, day, ts, oks) ==
    IF i > Len(rec) THEN M
    ELSE IF isDue(rec[i], day)
         THEN recurLoop(addOp(M, cloneOf(rec[i], day, ts), oks[i]),
                        rec, i + 1, day, ts + 1, oks)
         ELSE recurLoop(M, rec, i + 1, day, ts, oks)

processRecurringOp(M, day, ts, oks) ==
    recurLoop(init(M), recurringOf(init(M)), 1, day, ts, oks)

dueOf(M, day) ==
    LET due(t) == isDue(t, day)
    IN SelectSeq(recurringOf(init(M)), due)

dueCount(M, day) == Len(dueOf(M, day))

\* what a call of processRecurring adds to cloneLog
clonesMade(M, day) ==
    [i \in 1..dueCount(M, day) |-> <<dueOf(M, day)[i].timestamp, day>>]

-----------------------------------------------------------------------------
(* A JavaScript object used as a map: its entries in insertion order *)

hasKey(o, k) == \E i \in DOMAIN o : o[i].key = k

\* o[k]: Null stands for undefined
objGet(o, k) ==
    IF hasKey(o, k) THEN Some(o[CHOOSE i \in DOMAIN o : o[i].key = k].value) ELSE Null

\* o[k] = v
objSet(o, k, v) ==
    IF hasKey(o, k)
    THEN [i \in DOMAIN o |-> IF o[i].key = k THEN [key |-> k, value |-> v] ELSE o[i]]
    ELSE Append(o, [key |-> k, value |-> v])

\* delete o[k]
objDelete(o, k) ==
    LET keep(e) == e.key # k
    IN SelectSeq(o, keep)

keysOf(o) == { o[i].key : i \in DOMAIN o }

\* x || y on numbers and undefined: 0 and undefined are falsy
orElse(x, y) == IF x # Null /\ x[1] # 0 THEN x ELSE y

StringifyObject(o) == [i \in DOMAIN o |-> <<o[i].key, o[i].value>>]

ParseObject(j) == [i \in DOMAIN j |-> [key |-> j[i][1], value |-> j[i][2]]]

-----------------------------------------------------------------------------
(* BudgetManager *)

B == [budgets |-> budgets, initialized |-> budgetsInitialized,
      store |-> store, failures |-> failures]

InstallBudgets(M) ==
    /\ budgets' = M.budgets
    /\ budgetsInitialized' = M.initialized
    /\ store' = M.store
    /\ failures' = M.failures

\* new BudgetManager(storage)
constructedBudgets(M) == [M EXCEPT !.budgets = <<>>, !.initialized = FALSE]

\* this.budgets = await this.storage.get('budgets') || {}
budgetsLoadFromStorage(M) ==
    [M EXCEPT !.budgets = IF M.store.budgets = Null THEN <<>>
                          ELSE ParseObject(M.store.budgets[1])]

budgetsInit(M) ==
    IF ~M.initialized
    THEN [budgetsLoadFromStorage(M) EXCEPT !.initialized = TRUE]
    ELSE M

budgetsSaveToStorage(M, ok) ==
    IF ok
    THEN [M EXCEPT !.store.budgets = Some(StringifyObject(M.budgets))]
    ELSE [M EXCEPT !.failures = @ + 1]

budgetSet(M, category, limit, ok) ==
    budgetsSaveToStorage([budgetsInit(M) EXCEPT !.budgets = objSet(@, category, limit)], ok)

\* return this.budgets[category] || null
budgetGet(M, category) == orElse(objGet(budgetsInit(M).budgets, category), Null)

\* return { ...this.budgets }
budgetGetAll(M) == budgetsInit(M).budgets

budgetDelete(M, category, ok) ==
    budgetsSaveToStorage([budgetsInit(M) EXCEPT !.budgets = objDelete(@, category)], ok)

budgetClear(M, ok) ==
    budgetsSaveToStorage([budgetsInit(M) EXCEPT !.budgets = <<>>], ok)

-----------------------------------------------------------------------------
(* Spending by category and the budget panel *)

\* spending counting the transactions of every type
RECURSIVE spendingLoopAllTypes(_, _)
spendingLoopAllTypes(txs, spending) ==
    IF txs = <<>> THEN spending
    ELSE LET t == Head(txs)
         IN spendingLoopAllTypes(Tail(txs),
                objSet(spending, t.category,
                       orElse(objGet(spending, t.category), Some(0))[1] + t.amount))

\* .filter(t => t.type === 'expense').forEach(t => {
\*     spending[t.category] = (spending[t.category] || 0) + t.amount })
RECURSIVE spendingLoop(_, _)
spendingLoop(txs, spending) ==
    IF txs = <<>> THEN spending
    ELSE LET t == Head(txs)
         IN spendingLoop(Tail(txs),
                IF t.type = "expense"
                THEN objSet(spending, t.category,
                            orElse(objGet(spending, t.category), Some(0))[1] + t.amount)
                ELSE spending)

getSpendingByCategory(M) == spendingLoop(init(M).transactions, <<>>)

\* (spent / limit) * 100 as a JavaScript number: x / 0 is Infinity for
\* x > 0 and NaN for x = 0; otherwise the ratio num / den
percentageOf(spent, limit) ==
    IF limit = 0
    THEN [kind |-> IF spent = 0 THEN "NaN" ELSE "Infinity", num |-> 0, den |-> 1]
    ELSE [kind |-> "finite", num |-> spent * 100, den |-> limit]

\* percentage >= k: false on NaN
atLeast(p, k) == p.kind = "Infinity" \/ (p.kind = "finite" /\ p.num >= k * p.den)

\* percentage.toFixed(0) truncating instead of rounding
toFixedFloor(p) == p.num \div p.den

\* percentage.toFixed(0): the nearest integer, a half rounded up
toFixed0(p) == (2 * p.num + p.den) \div (2 * p.den)

\* the class of the progress bar with the thresholds tested in the wrong order
progressClassWarningFirst(p) ==
    IF atLeast(p, 80) THEN "warning" ELSE IF atLeast(p, 100) THEN "danger" ELSE ""

\* if (percentage >= 100) ... else if (percentage >= 80) ...
progressClassOf(p) ==
    IF atLeast(p, 100) THEN "danger" ELSE IF atLeast(p, 80) THEN "warning" ELSE ""

\* the class with a zero limit rejected as a full budget
progressClassZeroIsFull(spent, limit) ==
    IF limit = 0 THEN "danger" ELSE progressClassOf(percentageOf(spent, limit))

itemClass(spent, limit) == progressClassOf(percentageOf(spent, limit))

budgetItem(entry, spending) ==
    LET spent == orElse(objGet(spending, entry.key), Some(0))[1]
    IN [category |-> entry.key, limit |-> entry.value, spent |-> spent,
        progressClass |-> itemClass(spent, entry.value)]

alertOf(item) ==
    [category |-> item.category,
     type |-> item.progressClass,
     shown |-> IF item.progressClass = "warning"
               THEN Some(toFixed0(percentageOf(item.spent, item.limit)))
               ELSE Null]

renderBudgets(bs, spending) ==
    LET items == [i \in DOMAIN bs |-> budgetItem(bs[i], spending)]
        alerting(item) == item.progressClass # ""
        flagged == SelectSeq(items, alerting)
    IN IF bs = <<>>
       THEN [items |-> <<>>, alerts |-> <<>>]
       ELSE [items |-> items, alerts |-> [i \in DOMAIN flagged |-> alertOf(flagged[i])]]

-----------------------------------------------------------------------------
(* Inputs *)

StartNow == 89 * 24 + 9

TS == 1..MaxTs

\* a salary paid today, a monthly expense that is due again, and a monthly
\* expense not yet due
Templates ==
    { [type |-> "income",  amount |-> 3, category |-> "salary", date |-> 89, recurring |-> FALSE],
      [type |-> "expense", amount |-> 1, category |-> "food",   date |-> 58, recurring |-> TRUE],
      [type |-> "expense", amount |-> 2, category |-> "rent",   date |-> 61, recurring |-> TRUE] }

WithTs(tpl, ts) == [type |-> tpl.type, amount |-> tpl.amount, category |-> tpl.category,
                    date |-> tpl.date, recurring |-> tpl.recurring, timestamp |-> ts]

TxUniverse == { WithTs(tpl, ts) : tpl \in Templates, ts \in TS }

T0 == WithTs([type |-> "expense", amount |-> 1, category |-> "food",
              date |-> 58, recurring |-> TRUE], 1)

InitialStored == { Null, Some(JSONstringify(<<T0>>)) }

\* what a store write may do now: succeed, or fail while failures are left
Outcomes == IF failures < MaxStoreFailures THEN {TRUE, FALSE} ELSE {TRUE}

timestampsOf(txs) == { txs[i].timestamp : i \in 1..Len(txs) }

-----------------------------------------------------------------------------
(* Bookkeeping of the calls made *)

Entry(op, tx, ts, hit) ==
    [op |-> op, tx |-> tx, ts |-> ts, ret |-> result', hit |-> hit,
     hadRedo |-> canRedo, at |-> historyIndex, failed |-> failures' > failures]

Logged(op, tx, ts, hit) ==
    LET all == Append(log, Entry(op, tx, ts, hit))
    IN log' = IF Len(all) > LogLen THEN Tail(all) ELSE all

Counted(n) ==
    /\ nMut' = Min(nMut + n, maxHistory + 1)
    /\ mutRun' = Min(mutRun + n, maxHistory + 1)

-----------------------------------------------------------------------------
(* The ledger's operations, each call run to completion *)

\* the ids of the demo user and of the users registered
UserIds == {"demo_john"} \cup { "user_" \o ToString(n) : n \in (MaxTs + 1)..(MaxTs + MaxUsers) }

\* the keys of the settings store: the plain ones and each user's
AllKeys ==
    { <<"finance_tracker_", key>> : key \in {"transactions", "budgets", "lastRecurringCheck"} }
      \cup { <<"finance_tracker_", id, "_", key>> :
                id \in UserIds, key \in {"transactions", "budgets", "lastRecurringCheck"} }

Init ==
    /\ transactions = <<>>
    /\ history = <<>>
    /\ historyIndex = -1
    /\ initialized = FALSE
    /\ store \in { [transactions |-> s, lastRecurringCheck |-> Null, budgets |-> Null] : s \in InitialStored }
    /\ now = StartNow
    /\ nextTs = MaxTs + 1
    /\ result = FALSE
    /\ log = <<>>
    /\ nMut = 0
    /\ mutRun = 0
    /\ shifted = FALSE
    /\ failures = 0
    /\ inflight = <<>>
    /\ editingTimestamp = Null
    /\ cloneLog = <<>>
    /\ gateLog = <<>>
    /\ budgets = <<>>
    /\ budgetsInitialized = FALSE
    /\ expected = <<>>
    /\ got = Null
    /\ rendered = [items |-> <<>>, alerts |-> <<>>]
    /\ toast = Null
    /\ trend = <<>>
    /\ sample = <<>>
    /\ health = <<>>
    /\ currentTransactions = <<>>
    /\ pageShown = <<>>
    /\ confirmCallback = <<>>
    /\ uncaught = <<>>
    /\ exported = [transactions |-> <<>>, csv |-> <<>>]
    /\ db = [users |-> {}, settings |-> {}, auth |-> {}, currentUser |-> <<>>,
             accounts |-> {}, rememberMe |-> <<>>, values |-> [key \in AllKeys |-> <<>>]]
    /\ localStorage = [guestMode |-> <<>>, guestSession |-> <<>>, currentUser |-> <<>>]
    /\ sessionStorage = [currentUser |-> <<>>]
    /\ auth = [initialized |-> FALSE, users |-> {}, currentUser |-> <<>>]
    /\ app = [page |-> "login", isGuestMode |-> FALSE, currentUser |-> <<>>, console |-> <<>>]

loadData ==
    /\ Install(init(L))
    /\ UNCHANGED <<now, nextTs, result, nMut, mutRun, cloneLog>>

add(T) ==
    /\ \E ok \in Outcomes : Install(addOp(L, T, ok))
    /\ Counted(1)
    /\ UNCHANGED <<now, nextTs, result, cloneLog>>

delete(ts) ==
    /\ \E ok \in Outcomes : Install(deleteOp(L, ts, ok))
    /\ Counted(1)
    /\ UNCHANGED <<now, nextTs, result, cloneLog>>

undo ==
    /\ \E ok \in Outcomes : Install(undoOp(L, ok))
    /\ result' = canUndo
    /\ mutRun' = IF canUndo THEN 0 ELSE mutRun
    /\ UNCHANGED <<now, nextTs, nMut, cloneLog>>

redo ==
    /\ \E ok \in Outcomes : Install(redoOp(L, ok))
    /\ result' = canRedo
    /\ UNCHANGED <<now, nextTs, nMut, mutRun, cloneLog>>

processRecurring ==
    LET n == dueCount(L, today)
    IN /\ \E oks \in [1..Len(recurringOf(init(L))) -> BOOLEAN] :
            /\ Cardinality({i \in DOMAIN oks : ~oks[i] /\ isDue(recurringOf(init(L))[i], today)})
                   <= MaxStoreFailures - failures
            /\ \A i \in DOMAIN oks : ~isDue(recurringOf(init(L))[i], today) => oks[i]
            /\ Install(processRecurringOp(L, today, nextTs, oks))
       /\ nextTs' = nextTs + n
       /\ cloneLog' = cloneLog \o clonesMade(L, today)
       /\ Counted(n)
       /\ UNCHANGED <<now, result>>

AppIdle == UNCHANGED <<inflight, editingTimestamp, gateLog, budgetVars, auxVars>>

Next ==
    \/ loadData /\ UNCHANGED log /\ AppIdle
    \/ \E T \in TxUniverse :
          /\ nMut < MaxOps
          /\ add(T)
          /\ Logged("add", Some(T), T.timestamp, T.timestamp \in timestampsOf(init(L).transactions))
          /\ AppIdle
    \/ \E ts \in TS :
          /\ nMut < MaxOps
          /\ delete(ts)
          /\ Logged("delete", Null, ts, ts \in timestampsOf(init(L).transactions))
          /\ AppIdle
    \/ undo /\ Logged("undo", Null, 0, FALSE) /\ AppIdle
    \/ redo /\ Logged("redo", Null, 0, FALSE) /\ AppIdle
    \/ /\ nMut + dueCount(L, today) <= MaxOps
       /\ nextTs + dueCount(L, today) <= MaxTs + MaxClones + 1
       /\ processRecurring
       /\ Logged("processRecurring", Null, 0, dueCount(L, today) > 0)
       /\ AppIdle

Spec == Init /\ [][Next]_vars

-----------------------------------------------------------------------------
(* Long runs of one ledger: a single transaction entered and deleted over   *)
(* and over, with undo and redo, and one recurring materialisation; the     *)
(* store never fails.  These runs fill the history and evict snapshots.     *)

Quiet == failures' = failures /\ UNCHANGED log /\ AppIdle

NextLong ==
    \/ loadData /\ Quiet
    \/ T0.timestamp \notin timestampsOf(init(L).transactions) /\ add(T0) /\ Quiet
    \/ T0.timestamp \in timestampsOf(init(L).transactions) /\ delete(T0.timestamp) /\ Quiet
    \/ undo /\ Quiet
    \/ redo /\ Quiet
    \/ nextTs = MaxTs + 1 /\ dueCount(L, today) = 1 /\ processRecurring /\ Quiet

SpecLong == Init /\ [][NextLong]_vars

-----------------------------------------------------------------------------
(* FinanceApp (app.js) over the async TransactionManager.  A user action    *)
(* runs its handler; a ledger call the handler does not await stays in      *)
(* flight: it has run up to an await and is resumed later, the calls in     *)
(* flight being resumed in any order.  add and delete suspend at            *)
(* `await this.init()`, at `await this.saveToStorage()` and finish with     *)
(* saveHistory; undo and redo change the cursor and the live set at once    *)
(* and suspend at `await this.saveToStorage()`.                             *)

ledgerVars == <<transactions, history, historyIndex, initialized, store, shifted, failures>>

addCall(T) == [op |-> "add", tx |-> Some(T), ts |-> T.timestamp, pc |-> "init",
               next |-> <<>>, cancel |-> FALSE]

deleteCall(ts) == [op |-> "delete", tx |-> Null, ts |-> ts, pc |-> "init",
                   next |-> <<>>, cancel |-> FALSE]

writeCall(op) == [op |-> op, tx |-> Null, ts |-> 0, pc |-> "save",
                  next |-> <<>>, cancel |-> FALSE]

Remove(s, i) == SubSeq(s, 1, i - 1) \o SubSeq(s, i + 1, Len(s))

Ascending(S) ==
    CHOOSE q \in [1..Cardinality(S) -> S] :
        \A i, j \in 1..Cardinality(S) : i < j => q[i] < q[j]

\* a JavaScript number: NaN, or a value
NaN == [nan |-> TRUE, n |-> 0]

Num(n) == [nan |-> FALSE, n |-> n]

minus(a, b) == IF a.nan \/ b.nan THEN NaN ELSE Num(a.n - b.n)

greater(a, b) == ~a.nan /\ ~b.nan /\ a.n > b.n

\* if (now - lastCheck > oneDay)
gateOpen(lastCheck) == greater(minus(Num(now), lastCheck), Num(oneDay))

\* new TransactionManager(storage)
constructed(M) ==
    [M EXCEPT !.transactions = <<>>, !.history = <<>>, !.historyIndex = -1,
              !.initialized = FALSE, !.shifted = FALSE]

\* FinanceApp.init on a page load: loadData, then checkRecurringTransactions.
\* this.storage.get('lastRecurringCheck') is not awaited there: lastCheck is
\* a Promise, now - lastCheck is NaN and the comparison is false.
appInit ==
    LET M == init(constructed(L))
        lastCheck == NaN
        n == dueCount(M, today)
    IN /\ IF gateOpen(lastCheck)
          THEN /\ Install([processRecurringOp(M, today, nextTs, [i \in 1..Len(recurringOf(M)) |-> TRUE])
                             EXCEPT !.store.lastRecurringCheck = Some(now)])
               /\ nextTs' = nextTs + n
               /\ cloneLog' = cloneLog \o clonesMade(M, today)
               /\ Counted(n)
          ELSE /\ Install(M)
               /\ UNCHANGED <<nextTs, cloneLog, nMut, mutRun>>
       /\ gateLog' = Append(gateLog, <<now, gateOpen(lastCheck), "async">>)
       /\ inflight' = <<>>
       /\ editingTimestamp' = Null
       /\ budgets' = budgetsInit(constructedBudgets(B)).budgets
       /\ budgetsInitialized' = TRUE
       /\ rendered' = renderBudgets(budgets', getSpendingByCategory(M))
       /\ toast' = Null
       /\ confirmCallback' = Null
       /\ UNCHANGED <<now, result, log, expected, got, uncaught, viewVars>>

\* the transaction the form holds when it is submitted
formTransaction(tpl) ==
    WithTs(tpl, IF editingTimestamp # Null THEN editingTimestamp[1] ELSE nextTs)

\* the balance alone, the expense being edited still counted against it
availableBalanceWhileCounted == getStats(L).balance

availableBalance ==
    LET isOld(t) == editingTimestamp # Null /\ t.timestamp = editingTimestamp[1]
        old == SelectSeq(transactions, isOld)
    IN getStats(L).balance
         + (IF old # <<>> /\ old[1].type = "expense" THEN old[1].amount ELSE 0)

insufficient(tpl) == tpl.type = "expense" /\ tpl.amount > availableBalance

\* showToast(`Insufficient balance! Available: ...`, 'error')
insufficientBalance(available) ==
    Some([message |-> "Insufficient balance!", available |-> available])

handleTransactionSubmit(tpl) ==
    /\ initialized
    /\ IF insufficient(tpl)
       THEN /\ toast' = insufficientBalance(availableBalance)
            /\ UNCHANGED <<inflight, nextTs, nMut, mutRun>>
       ELSE IF editingTimestamp # Null
       THEN /\ inflight' = Append(inflight,
                   [deleteCall(editingTimestamp[1]) EXCEPT
                       !.next = <<[addCall(formTransaction(tpl)) EXCEPT !.cancel = TRUE]>>])
            /\ Counted(2)
            /\ UNCHANGED <<nextTs, toast>>
       ELSE /\ inflight' = Append(inflight, addCall(formTransaction(tpl)))
            /\ Counted(1)
            /\ nextTs' = nextTs + 1
            /\ UNCHANGED toast
    /\ UNCHANGED <<ledgerVars, now, result, log, editingTimestamp, cloneLog, gateLog, budgetVars,
                   confirmCallback, uncaught, viewVars>>

editTransaction(ts) ==
    /\ initialized
    /\ ts \in timestampsOf(transactions)
    /\ editingTimestamp' = Some(ts)
    /\ UNCHANGED <<ledgerVars, now, nextTs, result, log, nMut, mutRun, inflight, cloneLog, gateLog, budgetVars, auxVars>>

cancelEdit ==
    /\ editingTimestamp # Null
    /\ editingTimestamp' = Null
    /\ UNCHANGED <<ledgerVars, now, nextTs, result, log, nMut, mutRun, inflight, cloneLog, gateLog, budgetVars, auxVars>>

deleteTransaction(ts) ==
    /\ initialized
    /\ ts \in timestampsOf(transactions)
    /\ inflight' = Append(inflight, deleteCall(ts))
    /\ Counted(1)
    /\ UNCHANGED <<ledgerVars, now, nextTs, result, log, editingTimestamp, cloneLog, gateLog, budgetVars, auxVars>>

deleteSelected(S) ==
    /\ initialized
    /\ S # {}
    /\ S \subseteq timestampsOf(transactions)
    /\ inflight' = inflight \o [i \in 1..Cardinality(S) |-> deleteCall(Ascending(S)[i])]
    /\ Counted(Cardinality(S))
    /\ UNCHANGED <<ledgerVars, now, nextTs, result, log, editingTimestamp, cloneLog, gateLog, budgetVars, auxVars>>

handleUndo ==
    /\ initialized
    /\ result' = canUndo
    /\ IF canUndo
       THEN /\ Install(stepBack(L))
            /\ inflight' = Append(inflight, writeCall("undo"))
            /\ mutRun' = 0
       ELSE UNCHANGED <<ledgerVars, inflight, mutRun>>
    /\ UNCHANGED <<now, nextTs, log, nMut, editingTimestamp, cloneLog, gateLog, budgetVars, auxVars>>

handleRedo ==
    /\ initialized
    /\ result' = canRedo
    /\ IF canRedo
       THEN /\ Install(stepForward(L))
            /\ inflight' = Append(inflight, writeCall("redo"))
       ELSE UNCHANGED <<ledgerVars, inflight>>
    /\ UNCHANGED <<now, nextTs, log, nMut, mutRun, editingTimestamp, cloneLog, gateLog, budgetVars, auxVars>>

\* a transaction of an import file: its timestamp is 0 when the file gives none
Payloads ==
    { <<T0>>,
      <<WithTs([type |-> "income", amount |-> 3, category |-> "salary",
                date |-> 89, recurring |-> FALSE], 0)>> }

\* timestamp: transaction.timestamp || Date.now() + Math.random()
importedTransaction(payload, i) ==
    LET missing == Cardinality({ j \in 1..(i - 1) : payload[j].timestamp = 0 })
    IN [payload[i] EXCEPT !.timestamp = IF @ # 0 THEN @ ELSE nextTs + missing]

\* a value of an import file, as JSON.parse returns it
undefined == [kind |-> "undefined", items |-> <<>>]

array(items) == [kind |-> "array", items |-> items]

object(entries) == [kind |-> "object", items |-> entries]

number(n) == [kind |-> "number", items |-> <<n>>]

\* a Promise: what an async method returns to a caller that does not await
promise == [kind |-> "promise", items |-> <<>>]

truthy(v) == v.kind \in {"array", "object", "promise"} \/ (v.kind = "number" /\ v.items[1] # 0)

isArray(v) == v.kind = "array"

\* typeof v === 'object', v being truthy
typeofObject(v) == v.kind \in {"array", "object", "promise"}

\* v.forEach is a function
hasForEach(v) == v.kind = "array"

\* Object.entries: the keys of an array are its indices
ObjectEntries(v) ==
    IF v.kind = "object" THEN v.items
    ELSE IF v.kind = "array"
    THEN [i \in DOMAIN v.items |-> [key |-> ToString(i - 1), value |-> v.items[i]]]
    ELSE <<>>

\* a field a file leaves out reads as "" or 0
wellFormed(t) ==
    /\ ~(t.type = "" \/ t.amount = 0 \/ t.category = "" \/ t.date = 0)
    /\ t.type \in {"income", "expense"}

validateImportData(data) ==
    /\ ~(truthy(data.transactions) /\ ~isArray(data.transactions))
    /\ ~(truthy(data.budgets) /\ ~typeofObject(data.budgets))
    /\ truthy(data.transactions)
         => \A i \in DOMAIN data.transactions.items : wellFormed(data.transactions.items[i])

errorToast(message) == Some([message |-> message])

\* clearAllData: this.transactions.getAll() is not awaited, and forEach is
\* called on the Promise it returns
clearAllData == [threw |-> ~hasForEach(promise)]

\* this.budgets.set(category, limit) for every entry
RECURSIVE setAll(_, _)
setAll(M, entries) ==
    IF entries = <<>> THEN M
    ELSE setAll(budgetSet(M, Head(entries).key, Head(entries).value, TRUE), Tail(entries))

\* the transactions and the budgets processImportData goes through
transactionsOf(data) ==
    IF truthy(data.transactions) /\ isArray(data.transactions)
    THEN data.transactions.items ELSE <<>>

budgetsOf(data) ==
    IF truthy(data.budgets) /\ typeofObject(data.budgets)
    THEN ObjectEntries(data.budgets) ELSE <<>>

\* processImportData calls add for every transaction of the file without
\* awaiting any; what clearAllData throws is caught
processImportData(data, mergeMode) ==
    IF ~mergeMode /\ clearAllData.threw
    THEN /\ toast' = errorToast("Error processing imported data")
         /\ UNCHANGED <<ledgerVars, inflight, nextTs, nMut, mutRun, budgets, budgetsInitialized>>
    ELSE LET payload == transactionsOf(data)
         IN /\ inflight' = inflight \o [i \in 1..Len(payload) |->
                                           addCall(importedTransaction(payload, i))]
            /\ nextTs' = nextTs + Cardinality({ j \in 1..Len(payload) : payload[j].timestamp = 0 })
            /\ Counted(Len(payload))
            /\ InstallBudgets(setAll(B, budgetsOf(data)))
            /\ UNCHANGED <<transactions, history, historyIndex, initialized, shifted, toast>>

handleImportData(file) ==
    /\ initialized
    /\ IF ~validateImportData(file.data)
       THEN /\ toast' = errorToast("Invalid file format")
            /\ UNCHANGED <<ledgerVars, inflight, nextTs, nMut, mutRun, budgets,
                           budgetsInitialized, confirmCallback>>
       ELSE IF ~file.mergeMode
       THEN /\ confirmCallback' = Some([run |-> "processImportData", data |-> file.data])
            /\ UNCHANGED <<ledgerVars, inflight, nextTs, nMut, mutRun, budgets,
                           budgetsInitialized, toast>>
       ELSE /\ processImportData(file.data, TRUE)
            /\ UNCHANGED confirmCallback
    /\ UNCHANGED <<now, result, log, editingTimestamp, cloneLog, gateLog, expected, got,
                   rendered, uncaught, viewVars>>

\* a file holding the transactions of a payload, merged into the ledger
mergeFile(payload) ==
    [data |-> [transactions |-> array(payload), budgets |-> undefined], mergeMode |-> TRUE]

\* the call in flight at position i runs on to its next await, or to its end
resume(i) ==
    LET f == inflight[i]
    IN /\ CASE f.pc = "init" ->
                /\ Install(IF f.op = "add" THEN push(L, f.tx[1]) ELSE filterOut(L, f.ts))
                /\ inflight' = [inflight EXCEPT ![i].pc = "save"]
                /\ UNCHANGED editingTimestamp
            [] f.pc = "save" ->
                /\ \E ok \in Outcomes : Install(saveToStorage(L, ok))
                /\ inflight' = IF f.op \in {"undo", "redo"}
                               THEN Remove(inflight, i)
                               ELSE [inflight EXCEPT ![i].pc = "history"]
                /\ UNCHANGED editingTimestamp
            [] f.pc = "history" ->
                /\ Install(saveHistory(L))
                /\ inflight' = Remove(inflight, i) \o f.next
                /\ editingTimestamp' = IF f.cancel THEN Null ELSE editingTimestamp
       /\ UNCHANGED <<now, nextTs, result, log, nMut, mutRun, cloneLog, gateLog, budgetVars, auxVars>>

\* room left, within the bounds, for n more ledger calls of which m start now
Room(n, m) == nMut + n <= MaxOps /\ Len(inflight) + m <= MaxInflight

NextApp ==
    \/ Len(gateLog) < MaxAppLoads /\ appInit
    \/ \E tpl \in Templates :
          /\ Room(IF editingTimestamp # Null THEN 2 ELSE 1, 1)
          /\ nextTs <= MaxTs + MaxClones
          /\ handleTransactionSubmit(tpl)
    \/ \E ts \in timestampsOf(transactions) : editTransaction(ts)
    \/ cancelEdit
    \/ \E ts \in timestampsOf(transactions) : Room(1, 1) /\ deleteTransaction(ts)
    \/ \E S \in SUBSET timestampsOf(transactions) :
          Room(Cardinality(S), Cardinality(S)) /\ deleteSelected(S)
    \/ Room(0, 1) /\ handleUndo
    \/ Room(0, 1) /\ handleRedo
    \/ \E payload \in Payloads :
          /\ Room(Len(payload), Len(payload))
          /\ nextTs + Len(payload) <= MaxTs + MaxClones + 1
          /\ handleImportData(mergeFile(payload))
    \/ \E i \in DOMAIN inflight : resume(i)

SpecApp == Init /\ [][NextApp]_vars

-----------------------------------------------------------------------------
(* Page loads over the days: FinanceApp.init of app.js, and of the earlier  *)
(* synchronous FinanceApp with its synchronous TransactionManager and       *)
(* store; the store's writes succeed.                                       *)

\* this.storage.get("lastRecurringCheck") || 0, the store being synchronous
lastRecurringCheck(M) ==
    IF M.store.lastRecurringCheck = Null THEN 0 ELSE M.store.lastRecurringCheck[1]

\* checkRecurringTransactions without its gate
checkAlways(M) ==
    [m |-> [processRecurringOp(M, today, nextTs, [i \in 1..Len(recurringOf(M)) |-> TRUE])
              EXCEPT !.store.lastRecurringCheck = Some(now)],
     opened |-> TRUE]

\* checkRecurringTransactions of the synchronous FinanceApp
checkRecurringTransactions(M) ==
    IF gateOpen(Num(lastRecurringCheck(M)))
    THEN [m |-> [processRecurringOp(M, today, nextTs, [i \in 1..Len(recurringOf(M)) |-> TRUE])
                   EXCEPT !.store.lastRecurringCheck = Some(now)],
          opened |-> TRUE]
    ELSE [m |-> M, opened |-> FALSE]

\* new FinanceApp() of the synchronous variant: loadData, then the check
appInitSync ==
    LET M == init(constructed(L))
        c == checkRecurringTransactions(M)
        n == IF c.opened THEN dueCount(M, today) ELSE 0
    IN /\ Install(c.m)
       /\ nextTs' = nextTs + n
       /\ cloneLog' = IF c.opened THEN cloneLog \o clonesMade(M, today) ELSE cloneLog
       /\ Counted(n)
       /\ gateLog' = Append(gateLog, <<now, c.opened, "sync">>)
       /\ inflight' = <<>>
       /\ editingTimestamp' = Null
       /\ budgets' = budgetsInit(constructedBudgets(B)).budgets
       /\ budgetsInitialized' = TRUE
       /\ rendered' = renderBudgets(budgets', getSpendingByCategory(c.m))
       /\ toast' = Null
       /\ confirmCallback' = Null
       /\ UNCHANGED <<now, result, log, expected, got, uncaught, viewVars>>

\* handleTransactionSubmit of the synchronous variant
handleTransactionSubmitSync(tpl) ==
    /\ initialized
    /\ IF tpl.type = "expense" /\ tpl.amount > getStats(L).balance
       THEN /\ toast' = insufficientBalance(getStats(L).balance)
            /\ UNCHANGED <<ledgerVars, nextTs, nMut, mutRun>>
       ELSE /\ Install(addOp(L, WithTs(tpl, nextTs), TRUE))
            /\ nextTs' = nextTs + 1
            /\ Counted(1)
            /\ UNCHANGED toast
    /\ UNCHANGED <<now, result, log, inflight, editingTimestamp, cloneLog, gateLog, budgetVars,
                   confirmCallback, uncaught, viewVars>>

TickHours == {7}

tick(h) ==
    /\ now' = now + h
    /\ UNCHANGED <<ledgerVars, nextTs, result, log, nMut, mutRun, inflight,
                   editingTimestamp, cloneLog, gateLog, budgetVars, auxVars>>

NextGate ==
    \/ Len(gateLog) < MaxLoads /\ nextTs + dueCount(init(constructed(L)), today) <= MaxTs + MaxClones + 1
          /\ appInit
    \/ Len(gateLog) < MaxLoads /\ nextTs + dueCount(init(constructed(L)), today) <= MaxTs + MaxClones + 1
          /\ appInitSync
    \/ \E tpl \in Templates :
          nMut < MaxOps /\ nextTs <= MaxTs + MaxClones /\ handleTransactionSubmitSync(tpl)
    \/ \E h \in TickHours : now + h <= StartNow + MaxHours /\ tick(h)

SpecGate == Init /\ [][NextGate]_vars

-----------------------------------------------------------------------------
(* The budget registry and the budget panel: budgets are set, read, deleted *)
(* and cleared, expenses and income are entered in the ledger, and the      *)
(* panel is drawn again after every change.                                 *)

Categories == {"food", "rent"}

Limits == {0, 5, 200}

BudgetTemplates ==
    { [type |-> "expense", amount |-> 1,   category |-> "food", date |-> 89, recurring |-> FALSE],
      [type |-> "expense", amount |-> 4,   category |-> "food", date |-> 89, recurring |-> FALSE],
      [type |-> "expense", amount |-> 195, category |-> "food", date |-> 89, recurring |-> FALSE],
      [type |-> "expense", amount |-> 4,   category |-> "rent", date |-> 89, recurring |-> FALSE],
      [type |-> "income",  amount |-> 3,   category |-> "rent", date |-> 89, recurring |-> FALSE] }

\* renderBudgets: budgets.getAll(), then, unless there is no budget,
\* transactions.getSpendingByCategory(); both load their manager if needed
draw(Bm, M) ==
    LET b == budgetsInit(Bm)
        m == IF budgetGetAll(Bm) = <<>> THEN M ELSE init(M)
    IN [b |-> b, m |-> m,
        panel |-> renderBudgets(budgetGetAll(Bm), getSpendingByCategory(m))]

\* the ledger as M left it and the registry as Bm left it, each having
\* written its own key of the store
InstallDrawn(d) ==
    /\ transactions' = d.m.transactions
    /\ history' = d.m.history
    /\ historyIndex' = d.m.historyIndex
    /\ initialized' = d.m.initialized
    /\ shifted' = d.m.shifted
    /\ budgets' = d.b.budgets
    /\ budgetsInitialized' = d.b.initialized
    /\ store' = [d.m.store EXCEPT !.budgets = d.b.store.budgets]
    /\ failures' = d.m.failures + d.b.failures - failures
    /\ rendered' = d.panel

upsert(f, k, v) == [x \in DOMAIN f \cup {k} |-> IF x = k THEN v ELSE f[x]]

without(f, k) == [x \in DOMAIN f \ {k} |-> f[x]]

budgetIdle == UNCHANGED <<now, nextTs, result, log, nMut, mutRun, inflight,
                          editingTimestamp, cloneLog, gateLog, auxVars>>

setBudget(category, limit) ==
    /\ \E ok \in Outcomes : InstallDrawn(draw(budgetSet(B, category, limit, ok), L))
    /\ expected' = upsert(expected, category, limit)
    /\ got' = Null
    /\ budgetIdle

removeBudget(category) ==
    /\ \E ok \in Outcomes : InstallDrawn(draw(budgetDelete(B, category, ok), L))
    /\ expected' = without(expected, category)
    /\ got' = Null
    /\ budgetIdle

clearBudgets ==
    /\ \E ok \in Outcomes : InstallDrawn(draw(budgetClear(B, ok), L))
    /\ expected' = <<>>
    /\ got' = Null
    /\ budgetIdle

getBudget(category) ==
    /\ InstallBudgets(budgetsInit(B))
    /\ got' = Some([category |-> category, value |-> budgetGet(B, category)])
    /\ UNCHANGED <<transactions, history, historyIndex, initialized, shifted,
                   expected, rendered>>
    /\ budgetIdle

enter(tpl) ==
    /\ InstallDrawn(draw(B, addOp(L, WithTs(tpl, nextTs), TRUE)))
    /\ nextTs' = nextTs + 1
    /\ Counted(1)
    /\ UNCHANGED <<now, result, log, inflight, editingTimestamp, cloneLog, gateLog,
                   expected, got, auxVars>>

NextBudget ==
    \/ \E category \in Categories, limit \in Limits : setBudget(category, limit)
    \/ \E category \in Categories : removeBudget(category)
    \/ clearBudgets
    \/ \E category \in Categories : getBudget(category)
    \/ \E tpl \in BudgetTemplates : nMut < MaxOps /\ enter(tpl)

SpecBudget == Init /\ [][NextBudget]_vars

-----------------------------------------------------------------------------
(* The spending trend.  A Date holds a UTC instant (here in hours); getDate *)
(* and setDate work on the wall clock of the device's time zone, and        *)
(* toISOString gives the UTC date.  A zone is its offset from UTC, in       *)
(* hours, before and from the instant its clocks change.                    *)

Zones ==
    { [before |-> 0, after |-> 0, change |-> 0],
      [before |-> 5, after |-> 5, change |-> 0],
      [before |-> 1, after |-> 2, change |-> 87 * 24 + 1] }

offsetAt(zone, t) == IF t < zone.change THEN zone.before ELSE zone.after

\* the instant at which the zone's wall clock shows l
utcOfLocal(zone, l) ==
    IF l - zone.before < zone.change THEN l - zone.before ELSE l - zone.after

\* date.setDate(date.getDate() - i): the same wall-clock time i days earlier
daysBefore(zone, t, i) == utcOfLocal(zone, t + offsetAt(zone, t) - 24 * i)

\* date.toISOString().split('T')[0]
isoDate(t) == t \div 24

\* .filter(t => t.type === 'expense' && t.date === dateStr).reduce(...)
dayExpense(txs, d) ==
    LET onDay(t) == t.type = "expense" /\ t.date = d
    IN reduceAmount(SelectSeq(txs, onDay), 0)

\* for (let i = 6; i >= 0; i--) last7Days.push({ date: dateStr, amount: dayExpense })
getSpendingTrend(M, t, zone) ==
    [k \in 1..7 |->
        LET d == isoDate(daysBefore(zone, t, 7 - k))
        IN [date |-> d, amount |-> dayExpense(init(M).transactions, d)]]

TrendTemplates ==
    { [type |-> "expense", amount |-> 1, category |-> "food",   date |-> 89, recurring |-> FALSE],
      [type |-> "expense", amount |-> 2, category |-> "food",   date |-> 83, recurring |-> FALSE],
      [type |-> "expense", amount |-> 4, category |-> "rent",   date |-> 82, recurring |-> FALSE],
      [type |-> "income",  amount |-> 3, category |-> "salary", date |-> 89, recurring |-> FALSE] }

\* the trend chart is drawn on a device in some zone
drawTrend(zone) ==
    /\ Install(init(L))
    /\ trend' = [zone |-> zone, at |-> now, entries |-> getSpendingTrend(L, now, zone)]
    /\ UNCHANGED <<now, nextTs, result, log, nMut, mutRun, inflight, editingTimestamp,
                   cloneLog, gateLog, budgetVars, toast, sample, health,
                   currentTransactions, pageShown, confirmCallback, uncaught, exported, db,
                   browserVars>>

NextTrend ==
    \/ \E tpl \in TrendTemplates : nMut < MaxOps /\ enter(tpl)
    \/ \E h \in TickHours : now + h <= StartNow + MaxHours /\ tick(h)
    \/ \E zone \in Zones : drawTrend(zone)

SpecTrend == Init /\ [][NextTrend]_vars

-----------------------------------------------------------------------------
(* FinancialHealthScore.  Amounts are integers, so every comparison of a    *)
(* ratio is made on the cross-multiplied integers.                          *)

MaxSample == 7

calculateSavingsRate(income, expenses) ==
    LET atLeastRate(k) == (income - expenses) * 100 >= k * income
    IN IF income <= 0 THEN 0
       ELSE IF atLeastRate(30) THEN 30
       ELSE IF atLeastRate(20) THEN 25
       ELSE IF atLeastRate(10) THEN 20
       ELSE IF atLeastRate(5) THEN 15
       ELSE IF income - expenses > 0 THEN 10
       ELSE 0

calculateBudgetAdherence(bs, spending) ==
    LET total == Len(bs)
        within == Cardinality({ i \in DOMAIN bs :
                      orElse(objGet(spending, bs[i].key), Some(0))[1]
                          <= orElse(Some(bs[i].value), Some(0))[1] })
    IN IF bs = <<>> THEN 0
       ELSE IF within = total THEN 25
       ELSE IF within * 100 >= 80 * total THEN 20
       ELSE IF within * 100 >= 60 * total THEN 15
       ELSE IF within * 100 >= 40 * total THEN 10
       ELSE IF within * 100 >= 20 * total THEN 5
       ELSE 0

\* the emergency fund scored out of 25
calculateEmergencyFundOutOf25(savings, monthlyExpenses) ==
    IF monthlyExpenses <= 0 THEN 25
    ELSE IF savings >= 6 * monthlyExpenses THEN 25
    ELSE IF savings >= 3 * monthlyExpenses THEN 15
    ELSE IF savings >= monthlyExpenses THEN 10
    ELSE IF 2 * savings >= monthlyExpenses THEN 5
    ELSE 0

calculateEmergencyFund(savings, monthlyExpenses) ==
    IF monthlyExpenses <= 0 THEN 20
    ELSE IF savings >= 6 * monthlyExpenses THEN 20
    ELSE IF savings >= 3 * monthlyExpenses THEN 15
    ELSE IF savings >= monthlyExpenses THEN 10
    ELSE IF 2 * savings >= monthlyExpenses THEN 5
    ELSE 0

RECURSIVE sumOfSquares(_)
sumOfSquares(txs) ==
    IF txs = <<>> THEN 0 ELSE Head(txs).amount * Head(txs).amount + sumOfSquares(Tail(txs))

\* .filter(t => t.type === 'expense' && new Date(t.date) >= thirtyDaysAgo):
\* new Date(t.date) is the midnight that starts the day t.date
recentExpenses(txs, t) ==
    LET recent(x) == x.type = "expense" /\ x.date * 24 >= t - 30 * 24
    IN SelectSeq(txs, recent)

\* the tier of cv = (stdDev / mean) * 100, cv being 100 when the mean is not
\* positive: with n values of sum S and sum of squares Q,
\* cv <= k iff (n * Q - S * S) * 10000 <= k * k * S * S
consistencyTier(recent) ==
    LET n == Len(recent)
        S == reduceAmount(recent, 0)
        Q == sumOfSquares(recent)
        cvAtMost(k) == IF S > 0 THEN (n * Q - S * S) * 10000 <= k * k * S * S
                                ELSE 100 <= k
    IN IF cvAtMost(20) THEN 15
       ELSE IF cvAtMost(40) THEN 12
       ELSE IF cvAtMost(60) THEN 9
       ELSE IF cvAtMost(80) THEN 6
       ELSE IF cvAtMost(100) THEN 3
       ELSE 0

\* the sub-score without the test on the length of the whole list
consistencyOfRecentOnly(txs, t) ==
    IF Len(recentExpenses(txs, t)) < 5 THEN 15
    ELSE consistencyTier(recentExpenses(txs, t))

calculateSpendingConsistency(txs, t) ==
    IF Len(txs) < 7 THEN 15
    ELSE IF Len(recentExpenses(txs, t)) < 5 THEN 15
    ELSE consistencyTier(recentExpenses(txs, t))

calculateScore(data, t) ==
    LET breakdown ==
           [savingsRate |-> calculateSavingsRate(data.totalIncome, data.totalExpenses),
            budgetAdherence |-> calculateBudgetAdherence(data.budgets, data.spendingByCategory),
            emergencyFund |-> calculateEmergencyFund(data.savingsBalance, data.totalExpenses),
            spendingConsistency |-> calculateSpendingConsistency(data.transactions, t),
            debtRatio |-> 10]
    IN [score |-> breakdown.savingsRate + breakdown.budgetAdherence
                    + breakdown.emergencyFund + breakdown.spendingConsistency
                    + breakdown.debtRatio,
        breakdown |-> breakdown]

HealthTemplates ==
    { [type |-> "expense", amount |-> 1,  category |-> "food",   date |-> 89, recurring |-> FALSE],
      [type |-> "expense", amount |-> 10, category |-> "food",   date |-> 89, recurring |-> FALSE],
      [type |-> "expense", amount |-> 10, category |-> "rent",   date |-> 50, recurring |-> FALSE],
      [type |-> "income",  amount |-> 30, category |-> "salary", date |-> 89, recurring |-> FALSE] }

HealthBudgets ==
    { <<>>,
      <<[key |-> "food", value |-> 5]>>,
      <<[key |-> "food", value |-> 5], [key |-> "rent", value |-> 200]>> }

\* updateFinancialHealthScore: the data the score is computed from
scoreData(txs, bs) ==
    LET income == reduceAmount(filterType(txs, "income"), 0)
        expense == reduceAmount(filterType(txs, "expense"), 0)
    IN [totalIncome |-> income,
        totalExpenses |-> expense,
        budgets |-> bs,
        spendingByCategory |-> spendingLoop(txs, <<>>),
        transactions |-> txs,
        savingsBalance |-> income - expense]

healthIdle == UNCHANGED <<ledgerVars, now, nextTs, result, log, nMut, mutRun, inflight,
                          editingTimestamp, cloneLog, gateLog, budgetVars, toast, trend,
                          currentTransactions, pageShown, confirmCallback, uncaught, exported, db,
                   browserVars>>

\* the sample is assembled before it is scored
record(tpl) ==
    /\ health = Null
    /\ Len(sample) < MaxSample
    /\ sample' = Append(sample, tpl)
    /\ UNCHANGED health
    /\ healthIdle

updateFinancialHealthScore(bs) ==
    /\ health' = Some([budgets |-> bs, transactions |-> sample,
                       result |-> calculateScore(scoreData(sample, bs), now)])
    /\ UNCHANGED sample
    /\ healthIdle

NextHealth ==
    \/ \E tpl \in HealthTemplates : record(tpl)
    \/ \E bs \in HealthBudgets : updateFinancialHealthScore(bs)

SpecHealth == Init /\ [][NextHealth]_vars

-----------------------------------------------------------------------------
(* The transaction list of FinanceApp, one page at a time.  A list entry is *)
(* named by its position in the list handed to renderTransactions.          *)

MaxItems == 25
MaxPage == 4

perPage == 10

\* Math.ceil(n / perPage)
ceilPages(n) == (n + perPage - 1) \div perPage

\* Array.prototype.slice: a negative index counts from the end, and both
\* indices are clamped to 0 .. length
relativeIndex(len, k) == IF k < 0 THEN (IF len + k < 0 THEN 0 ELSE len + k) ELSE Min(k, len)

slice(s, start, end) ==
    LET from == relativeIndex(Len(s), start)
        to == relativeIndex(Len(s), end)
    IN IF from >= to THEN <<>> ELSE SubSeq(s, from + 1, to)

pageIdle == UNCHANGED <<ledgerVars, now, nextTs, result, log, nMut, mutRun, inflight,
                        editingTimestamp, cloneLog, gateLog, budgetVars, toast, trend,
                        sample, health, confirmCallback, uncaught, exported, db,
                        browserVars>>

\* renderPagination sets currentTransactions only when it draws the buttons
renderTransactions(txs, page) ==
    LET totalPages == ceilPages(Len(txs))
        start == (page - 1) * perPage
        pageTransactions == slice(txs, start, start + perPage)
    IN IF pageTransactions = <<>>
       THEN /\ pageShown' = Some([of |-> txs, page |-> page, items |-> <<>>,
                                  totalPages |-> totalPages, pagination |-> Null])
            /\ UNCHANGED currentTransactions
       ELSE IF totalPages <= 1
       THEN /\ pageShown' = Some([of |-> txs, page |-> page, items |-> pageTransactions,
                                  totalPages |-> totalPages, pagination |-> Null])
            /\ UNCHANGED currentTransactions
       ELSE /\ pageShown' = Some([of |-> txs, page |-> page, items |-> pageTransactions,
                                  totalPages |-> totalPages,
                                  pagination |-> Some([previous |-> page # 1,
                                                       next |-> page # totalPages])])
            /\ currentTransactions' = Some(txs)

\* updateTransactionsList: the filtered and sorted list, first page
updateTransactionsList(n) ==
    /\ renderTransactions([i \in 1..n |-> i - 1], 1)
    /\ pageIdle

\* before the first list of more than one page currentTransactions is
\* undefined and changePage throws
changePage(page) ==
    /\ currentTransactions # Null
    /\ renderTransactions(currentTransactions[1], page)
    /\ pageIdle

NextPages ==
    \/ \E n \in 0..MaxItems : updateTransactionsList(n)
    \/ \E page \in (0 - MaxPage)..MaxPage : changePage(page)

SpecPages == Init /\ [][NextPages]_vars

-----------------------------------------------------------------------------
(* Import, Delete All and the confirm modal of FinanceApp (app.js)          *)

\* deleteAll: allTransactions = this.transactions.getAll() is a Promise, its
\* length is undefined and not 0, and the modal opens whatever the ledger
\* holds
deleteAll ==
    /\ initialized
    /\ confirmCallback' = Some([run |-> "deleteAll", allTransactions |-> promise])
    /\ UNCHANGED <<ledgerVars, now, nextTs, result, log, nMut, mutRun, inflight,
                   editingTimestamp, cloneLog, gateLog, budgetVars, toast, uncaught, viewVars>>

\* handleConfirmYes runs the callback, then forgets it and closes the modal.
\* The callback of deleteAll calls allTransactions.forEach: on a Promise
\* that throws, and the exception leaves handleConfirmYes before the
\* callback is forgotten.
handleConfirmYes ==
    /\ confirmCallback # Null
    /\ IF confirmCallback[1].run = "deleteAll"
       THEN IF hasForEach(confirmCallback[1].allTransactions)
            THEN /\ inflight' = inflight \o
                        [i \in DOMAIN confirmCallback[1].allTransactions.items |->
                            deleteCall(confirmCallback[1].allTransactions.items[i].timestamp)]
                 /\ Counted(Len(confirmCallback[1].allTransactions.items))
                 /\ confirmCallback' = Null
                 /\ UNCHANGED <<ledgerVars, nextTs, budgets, budgetsInitialized, toast, uncaught>>
            ELSE /\ uncaught' = Some("TypeError: allTransactions.forEach is not a function")
                 /\ UNCHANGED <<ledgerVars, inflight, nextTs, nMut, mutRun, budgets,
                                budgetsInitialized, toast, confirmCallback>>
       ELSE /\ processImportData(confirmCallback[1].data, FALSE)
            /\ confirmCallback' = Null
            /\ UNCHANGED uncaught
    /\ UNCHANGED <<now, result, log, editingTimestamp, cloneLog, gateLog, expected, got,
                   rendered, viewVars>>

closeConfirmModal ==
    /\ confirmCallback # Null
    /\ confirmCallback' = Null
    /\ UNCHANGED <<ledgerVars, now, nextTs, result, log, nMut, mutRun, inflight,
                   editingTimestamp, cloneLog, gateLog, budgetVars, toast, uncaught, viewVars>>

\* transactions of import files: one that gives no timestamp, and one whose
\* type is neither income nor expense
Salary == WithTs([type |-> "income", amount |-> 3, category |-> "salary",
                  date |-> 89, recurring |-> FALSE], 0)

Transfer == WithTs([type |-> "transfer", amount |-> 3, category |-> "salary",
                    date |-> 89, recurring |-> FALSE], 0)

ImportFiles ==
    { [data |-> [transactions |-> txs, budgets |-> bs], mergeMode |-> mode] :
        txs \in { undefined, array(<<>>), array(<<Salary>>), array(<<Salary, Transfer>>),
                  number(0), number(7) },
        bs \in { undefined, object(<<[key |-> "rent", value |-> 5]>>), array(<<5>>), number(7) },
        mode \in BOOLEAN }

NextData ==
    \/ Len(gateLog) < MaxAppLoads /\ appInit
    \/ \E file \in ImportFiles :
          /\ Room(Len(file.data.transactions.items), Len(file.data.transactions.items))
          /\ nextTs + Len(file.data.transactions.items) <= MaxTs + MaxClones + 1
          /\ handleImportData(file)
    \/ deleteAll
    \/ handleConfirmYes
    \/ closeConfirmModal
    \/ \E i \in DOMAIN inflight : resume(i)

SpecData == Init /\ [][NextData]_vars

-----------------------------------------------------------------------------
(* ExportManager.toCSV (export.js).  A text is a sequence of characters; a  *)
(* word without quote, comma or line break counts as one character.         *)

MaxRows == 2
MaxDescription == 2

Quote == "\""
Comma == ","
LineBreak == "\n"

\* `${cell}` of a number
numberText(n) == <<ToString(n)>>

RECURSIVE join(_, _)
join(texts, separator) ==
    IF texts = <<>> THEN <<>>
    ELSE IF Len(texts) = 1 THEN texts[1]
    ELSE texts[1] \o <<separator>> \o join(Tail(texts), separator)

headers == << <<"Date">>, <<"Type">>, <<"Category">>, <<"Amount">>, <<"Description">>,
              <<"Recurring">> >>

\* [t.date, t.type, t.category, t.amount, t.description || '', t.recurring ? 'Yes' : 'No']
rowOf(t) ==
    << numberText(t.date), <<t.type>>, <<t.category>>, numberText(t.amount),
       t.description, IF t.recurring THEN <<"Yes">> ELSE <<"No">> >>

\* `"${cell}"`
quoted(cell) == <<Quote>> \o cell \o <<Quote>>

toCSV(txs) ==
    LET rows == [i \in DOMAIN txs |-> rowOf(txs[i])]
        line(row) == join([k \in DOMAIN row |-> quoted(row[k])], Comma)
    IN join(<<join(headers, Comma)>> \o [i \in DOMAIN rows |-> line(rows[i])], LineBreak)

Characters == {"a", Quote, Comma, LineBreak}

Descriptions == UNION { [1..n -> Characters] : n \in 0..MaxDescription }

CsvTransactions ==
    { [type |-> "expense", amount |-> 5, category |-> "food", date |-> 89,
       description |-> d, recurring |-> r, timestamp |-> 1] :
        d \in Descriptions, r \in BOOLEAN }

csvIdle == UNCHANGED <<ledgerVars, now, nextTs, result, log, nMut, mutRun, inflight,
                       editingTimestamp, cloneLog, gateLog, budgetVars, toast, trend, sample,
                       health, currentTransactions, pageShown, confirmCallback, uncaught, db,
                       browserVars>>

\* the transactions to export are chosen before the text is made
choose(t) ==
    /\ exported.csv = Null
    /\ Len(exported.transactions) < MaxRows
    /\ exported' = [exported EXCEPT !.transactions = Append(@, t)]
    /\ csvIdle

exportCSV ==
    /\ exported' = [exported EXCEPT !.csv = Some(toCSV(exported.transactions))]
    /\ csvIdle

NextCsv ==
    \/ \E t \in CsvTransactions : choose(t)
    \/ exportCSV

SpecCsv == Init /\ [][NextCsv]_vars

-----------------------------------------------------------------------------
(* Accounts (auth.js) and the keys under which StorageManager (storage.js)  *)
(* writes for a logged-in user.  A key is the sequence of the pieces it is  *)
(* concatenated from; no user id begins like the prefix of StorageManager,  *)
(* so a key starts with an id exactly when its first piece is that id.      *)

prefix == "finance_tracker_"

Users == { [email |-> "john@demo.com", id |-> "demo_john"],
           [email |-> "new@example.com", id |-> "user_1"] }

StorageKeys == {"transactions", "budgets", "lastRecurringCheck"}

\* the key left as it is, whoever is logged in
getUserStorageKeyShared(user, key) == <<key>>

\* `${this.currentUser.id}_${key}`
getUserStorageKey(user, key) == IF user = Null THEN <<key>> ELSE <<user[1].id, "_", key>>

\* this.db.setItem(this.prefix + key, ...), key being the user's key
storedKey(user, key) == <<prefix>> \o getUserStorageKey(user, key)

\* item.key.startsWith(userId)
startsWith(key, userId) == key # <<>> /\ key[1] = userId

accountIdle == UNCHANGED <<ledgerVars, now, nextTs, result, log, nMut, mutRun, inflight,
                           editingTimestamp, cloneLog, gateLog, budgetVars, toast, trend,
                           sample, health, currentTransactions, pageShown, confirmCallback,
                           uncaught, exported, browserVars>>

\* register and login; the demo data of a demo user are kept in the auth
\* store under keys that begin with the user's id
login(user) ==
    /\ db.currentUser = Null
    /\ db' = [db EXCEPT !.users = @ \cup {user.email},
                        !.auth = @ \cup {<<"moneymate_currentUser">>}
                                   \cup (IF user.id = "demo_john"
                                         THEN { <<user.id, "_", "transactions">>,
                                                <<user.id, "_", "budgets">> }
                                         ELSE {}),
                        !.currentUser = Some(user)]
    /\ accountIdle

logout ==
    /\ db.currentUser # Null
    /\ db' = [db EXCEPT !.auth = @ \ {<<"moneymate_currentUser">>}, !.currentUser = Null]
    /\ accountIdle

\* this.storage.set(key, value) of a logged-in user, through setupUserStorage
storageSet(key) ==
    /\ db.currentUser # Null
    /\ db' = [db EXCEPT !.settings = @ \cup {storedKey(db.currentUser, key)}]
    /\ accountIdle

deleteAccount ==
    /\ db.currentUser # Null
    /\ LET email == db.currentUser[1].email
           userId == db.currentUser[1].id
       IN db' = [db EXCEPT !.users = @ \ {email},
                           !.settings = { k \in @ : ~startsWith(k, userId) },
                           !.auth = { k \in @ : ~startsWith(k, userId) }
                                      \ {<<"moneymate_currentUser">>},
                           !.currentUser = Null]
    /\ accountIdle

NextAccount ==
    \/ \E user \in Users : login(user)
    \/ logout
    \/ \E key \in StorageKeys : storageSet(key)
    \/ deleteAccount

SpecAccount == Init /\ [][NextAccount]_vars

-----------------------------------------------------------------------------
(* The ledger's calls made while the first init() is still loading *)

\* await this.init() in a call made before this.initialized is set: init
\* finds the flag false and calls loadFromStorage, which waits for
\* this.storage.get('transactions'); the read was requested before any write
\* of the instance, and returns the value stored then
loading(c) == [read |-> store.transactions] @@ [c EXCEPT !.pc = "get"]

awaitInit(c) == IF initialized THEN c ELSE loading(c)

loadIdle == UNCHANGED <<now, result, log, editingTimestamp, cloneLog, gateLog, budgetVars, auxVars>>

\* this.transactions.add(transaction), up to its first await
startAdd(tpl) ==
    /\ inflight' = Append(inflight, awaitInit(addCall(WithTs(tpl, nextTs))))
    /\ nextTs' = nextTs + 1
    /\ Counted(1)
    /\ UNCHANGED ledgerVars
    /\ loadIdle

\* this.transactions.delete(timestamp), up to its first await
startDelete(ts) ==
    /\ inflight' = Append(inflight, awaitInit(deleteCall(ts)))
    /\ Counted(1)
    /\ UNCHANGED <<ledgerVars, nextTs>>
    /\ loadIdle

\* loadData: await this.transactions.init()
startInit ==
    /\ ~initialized
    /\ inflight' = Append(inflight, loading(writeCall("init")))
    /\ UNCHANGED <<ledgerVars, nextTs, nMut, mutRun>>
    /\ loadIdle

\* the call goes on once storage.get has answered: loadFromStorage assigns
\* the live set and pushes a snapshot, init sets the flag, and the call
\* mutates the live set and starts its write
afterGet(i) ==
    LET f == inflight[i]
        answer == IF f.read = Null THEN <<>> ELSE JSONparse(f.read[1])
        loaded == [saveHistory([L EXCEPT !.transactions = answer]) EXCEPT !.initialized = TRUE]
        rest == [op |-> f.op, tx |-> f.tx, ts |-> f.ts, pc |-> "save",
                 next |-> f.next, cancel |-> f.cancel]
    IN /\ f.pc = "get"
       /\ Install(IF f.op = "add" THEN push(loaded, f.tx[1])
                  ELSE IF f.op = "delete" THEN filterOut(loaded, f.ts)
                  ELSE loaded)
       /\ inflight' = IF f.op = "init" THEN Remove(inflight, i)
                      ELSE [inflight EXCEPT ![i] = rest]
       /\ UNCHANGED <<nextTs, nMut, mutRun>>
       /\ loadIdle

NextLoad ==
    \/ \E tpl \in Templates :
          Room(1, 1) /\ nextTs <= MaxTs + MaxClones /\ startAdd(tpl)
    \/ \E ts \in TS : Room(1, 1) /\ startDelete(ts)
    \/ Room(0, 1) /\ startInit
    \/ \E i \in DOMAIN inflight : afterGet(i)
    \/ \E i \in DOMAIN inflight : inflight[i].pc # "get" /\ resume(i)

SpecLoad == Init /\ [][NextLoad]_vars

-----------------------------------------------------------------------------
(* The login page and the start of the application: AuthManager,            *)
(* AuthController and FinanceApp.init. Time is in hours, as now is; a text  *)
(* is a sequence of characters where its letter case matters.               *)

\* the browser and the AuthManager of the page, as one value
W == [auth |-> auth, db |-> db, localStorage |-> localStorage,
      sessionStorage |-> sessionStorage]

InstallWorld(w) ==
    /\ auth' = w.auth
    /\ db' = w.db
    /\ localStorage' = w.localStorage
    /\ sessionStorage' = w.sessionStorage

\* new AuthManager()
constructedAuth == [initialized |-> FALSE, users |-> {}, currentUser |-> Null]

\* parseInt of the text Date.now().toString() wrote, at StartNow or later
parseInt(text) == CHOOSE n \in StartNow..now : ToString(n) = text

lowerCase(c) == IF c = "N" THEN "n" ELSE c

\* email.toLowerCase()
toLowerCase(text) == [i \in DOMAIN text |-> lowerCase(text[i])]

\* /^[^\s@]+@[^\s@]+\.[^\s@]+$/.test(email)
isValidEmail(email) ==
    \E a, d \in DOMAIN email :
        /\ email[a] = "@" /\ email[d] = "."
        /\ 1 < a /\ a + 1 < d /\ d < Len(email)
        /\ \A i \in DOMAIN email : i # a => email[i] # "@"

John == [id |-> "demo_john", email |-> <<"j", "@", "x", ".", "y">>, password |-> "demo123"]

Emails == { <<"j", "@", "x", ".", "y">>, <<"n", "@", "x", ".", "y">>,
            <<"N", "@", "x", ".", "y">>, <<"n", "x">> }

Passwords == {"demo123", "short"}

\* this.users[email]
userAt(users, email) ==
    IF \E e \in users : e.key = email
    THEN Some((CHOOSE e \in users : e.key = email).user)
    ELSE Null

\* this.users[email] = user
usersSet(users, email, user) ==
    { e \in users : e.key # email } \cup {[key |-> email, user |-> user]}

\* this.db.saveUser(user): a put into the users store, whose key is the email
saveUser(d, user) ==
    [d EXCEPT !.users = @ \cup {user.email},
              !.accounts = { u \in @ : u.email # user.email } \cup {user}]

\* AuthManager.logout
logoutOf(w) ==
    [w EXCEPT !.auth.currentUser = Null,
              !.db.auth = @ \ {<<"moneymate_currentUser">>, <<"moneymate_rememberMe">>},
              !.db.currentUser = Null,
              !.db.rememberMe = Null,
              !.sessionStorage.currentUser = Null,
              !.localStorage.currentUser = Null,
              !.localStorage.guestMode = Null]

\* AuthManager.checkAuthStatus: the saved login is the one of IndexedDB
checkAuthStatusOf(w) ==
    IF w.db.currentUser # Null
    THEN IF w.db.rememberMe # Null /\ now > w.db.rememberMe[1]
         THEN [ok |-> FALSE, w |-> logoutOf(w)]
         ELSE [ok |-> TRUE, w |-> [w EXCEPT !.auth.currentUser = w.db.currentUser]]
    ELSE [ok |-> FALSE, w |-> w]

\* AuthManager.init: loadUsers, checkAuthStatus, initializeDemoUsers
authInit(w) ==
    LET loaded == [w EXCEPT !.auth.users = { [key |-> u.email, user |-> u] : u \in w.db.accounts }]
        checked == checkAuthStatusOf(loaded).w
        demo == IF userAt(checked.auth.users, John.email) = Null
                THEN [checked EXCEPT !.auth.users = usersSet(@, John.email, John),
                                     !.db = saveUser(@, John)]
                ELSE checked
    IN IF w.auth.initialized THEN w
       ELSE [demo EXCEPT !.auth.initialized = TRUE,
                         !.db.auth = @ \cup { <<John.id, "_", "transactions">>,
                                              <<John.id, "_", "budgets">> }]

\* 'user_' + Date.now() + '_' + Math.random()...: an id no user has yet
generateUserId == "user_" \o ToString(nextTs)

\* AuthManager.register
registerOf(w0, userData) ==
    LET w == authInit(w0)
        newUser == [id |-> generateUserId, email |-> toLowerCase(userData.email),
                    password |-> userData.password]
    IN IF userAt(w.auth.users, userData.email) # Null
       THEN [threw |-> Some("User already exists with this email"), w |-> w]
       ELSE IF ~isValidEmail(userData.email)
       THEN [threw |-> Some("Please enter a valid email address"), w |-> w]
       ELSE IF Len(userData.password) < 6
       THEN [threw |-> Some("Password must be at least 6 characters long"), w |-> w]
       ELSE [threw |-> Null,
             w |-> [w EXCEPT !.auth.users = usersSet(@, userData.email, newUser),
                             !.db = saveUser(@, newUser)]]

\* AuthManager.login
loginOf(w0, email, password, remember) ==
    LET w == authInit(w0)
        user == userAt(w.auth.users, toLowerCase(email))
    IN IF user = Null \/ user[1].password # password
       THEN [threw |-> Some("Invalid email or password"), w |-> w]
       ELSE [threw |-> Null,
             w |-> [w EXCEPT
                      !.auth.currentUser = user,
                      !.db.auth = @ \cup {<<"moneymate_currentUser">>}
                                    \cup (IF remember THEN {<<"moneymate_rememberMe">>} ELSE {}),
                      !.db.currentUser = user,
                      !.db.rememberMe = IF remember THEN Some(now + thirtyDays) ELSE @,
                      !.sessionStorage.currentUser = user,
                      !.localStorage.currentUser = IF remember THEN user ELSE Null]]

removeGuest(ls) == [ls EXCEPT !.guestMode = Null, !.guestSession = Null]

\* clearStaleGuestData leaving a flag that has no timestamp where it is
clearStaleKeepsBareFlag(ls) ==
    IF ls.guestMode # Null /\ ls.guestSession # Null
         /\ now - parseInt(ls.guestSession[1]) > twentyFourHours
    THEN [ls |-> removeGuest(ls), console |-> <<"Clearing expired guest session data">>]
    ELSE [ls |-> ls, console |-> <<>>]

\* FinanceApp.clearStaleGuestData
clearStaleGuestData(ls) ==
    IF ls.guestMode # Null /\ ls.guestSession # Null
    THEN IF now - parseInt(ls.guestSession[1]) > twentyFourHours
         THEN [ls |-> removeGuest(ls), console |-> <<"Clearing expired guest session data">>]
         ELSE [ls |-> ls, console |-> <<>>]
    ELSE IF ls.guestMode # Null
    THEN [ls |-> [ls EXCEPT !.guestMode = Null],
          console |-> <<"Clearing invalid guest mode data">>]
    ELSE [ls |-> ls, console |-> <<>>]

\* FinanceApp.checkAuthentication, with redirectToLogin where it gives up
checkAuthentication(w) ==
    LET isGuestMode == w.localStorage.guestMode = Some("true")
        guestSession == w.localStorage.guestSession
        checked == checkAuthStatusOf(w)
        redirected(v) == [v EXCEPT !.localStorage = removeGuest(@)]
    IN IF isGuestMode
       THEN IF guestSession # Null /\ now - parseInt(guestSession[1]) > twentyFourHours
            THEN [ok |-> FALSE, isGuestMode |-> FALSE, w |-> redirected(w),
                  console |-> <<"Guest session expired, redirecting to login...">>]
            ELSE [ok |-> TRUE, isGuestMode |-> TRUE, w |-> w,
                  console |-> <<"Valid guest mode session found">>]
       ELSE IF ~checked.ok
       THEN [ok |-> FALSE, isGuestMode |-> FALSE, w |-> redirected(checked.w),
             console |-> <<"No authentication found, redirecting to login...">>]
       ELSE [ok |-> TRUE, isGuestMode |-> FALSE, w |-> checked.w,
             console |-> <<"User authenticated">>]

\* the key this.storage reads and writes for key: setupUserStorage wraps get
\* and set with auth.getUserStorageKey unless the page is in guest mode
keyOf(isGuestMode, user, key) ==
    IF isGuestMode THEN <<prefix, key>> ELSE storedKey(user, key)

\* the entries of the settings store the page's storage maps its keys to
entriesOf(d, isGuestMode, user) ==
    [transactions |-> d.values[keyOf(isGuestMode, user, "transactions")],
     lastRecurringCheck |-> d.values[keyOf(isGuestMode, user, "lastRecurringCheck")],
     budgets |-> d.values[keyOf(isGuestMode, user, "budgets")]]

\* this.storage.set(key, value) of the page, value being what the manager
\* has just written to its view of the store
storageWrite(d, key, value) ==
    LET k == keyOf(app.isGuestMode, auth.currentUser, key)
    IN [d EXCEPT !.values[k] = value, !.settings = @ \cup {k}]

browserIdle == UNCHANGED <<now, result, log, cloneLog, gateLog, expected, got, trend, sample,
                           health, currentTransactions, pageShown, confirmCallback, uncaught,
                           exported>>

ledgerIdle == UNCHANGED <<ledgerVars, inflight, editingTimestamp, budgets, budgetsInitialized,
                          rendered, nMut, mutRun>>

\* AuthController.handleGuestMode; the second setItem throws when the quota
\* of localStorage is used up, and the flag is then left without a timestamp
handleGuestMode(ok) ==
    /\ app.page = "login"
    /\ localStorage' = [localStorage EXCEPT
                          !.guestMode = Some("true"),
                          !.guestSession = IF ok THEN Some(ToString(now)) ELSE @]
    /\ UNCHANGED <<db, sessionStorage, auth, app, nextTs, toast>>
    /\ ledgerIdle
    /\ browserIdle

\* AuthController.handleLogin
handleLogin(email, password, remember) ==
    LET r == loginOf(W, email, password, remember)
    IN /\ app.page = "login"
       /\ InstallWorld(r.w)
       /\ toast' = IF r.threw = Null THEN toast ELSE Some([message |-> r.threw[1]])
       /\ UNCHANGED <<app, nextTs>>
       /\ ledgerIdle
       /\ browserIdle

\* AuthController.handleRegister: register, then login with what was typed
handleRegister(userData) ==
    LET registered == registerOf(W, userData)
        r == IF registered.threw # Null THEN registered
             ELSE loginOf(registered.w, userData.email, userData.password, FALSE)
    IN /\ app.page = "login"
       /\ InstallWorld(r.w)
       /\ toast' = IF r.threw = Null THEN toast ELSE Some([message |-> r.threw[1]])
       /\ nextTs' = IF registered.threw = Null THEN nextTs + 1 ELSE nextTs
       /\ UNCHANGED app
       /\ ledgerIdle
       /\ browserIdle

\* FinanceApp.init on a load of index.html: clearStaleGuestData,
\* checkAuthentication, setupUserStorage, loadData; checkRecurringTransactions
\* compares with a Promise and never runs the gate
start ==
    LET stale == clearStaleGuestData(localStorage)
        checked == checkAuthentication([W EXCEPT !.auth = constructedAuth,
                                                 !.localStorage = stale.ls])
        user == checked.w.auth.currentUser
        found == entriesOf(checked.w.db, checked.isGuestMode, user)
        M == init(constructed([L EXCEPT !.store = found]))
        Bm == budgetsInit(constructedBudgets([B EXCEPT !.store = found]))
    IN /\ InstallWorld(checked.w)
       /\ app' = [page |-> IF checked.ok THEN "index" ELSE "login",
                  isGuestMode |-> checked.isGuestMode,
                  currentUser |-> IF checked.ok THEN user ELSE Null,
                  console |-> stale.console \o checked.console]
       /\ IF checked.ok
          THEN /\ Install(M)
               /\ budgets' = Bm.budgets
               /\ budgetsInitialized' = TRUE
               /\ rendered' = renderBudgets(Bm.budgets, getSpendingByCategory(M))
          ELSE /\ Install(constructed(L))
               /\ budgets' = <<>>
               /\ budgetsInitialized' = FALSE
               /\ rendered' = [items |-> <<>>, alerts |-> <<>>]
       /\ inflight' = <<>>
       /\ editingTimestamp' = Null
       /\ UNCHANGED <<nextTs, nMut, mutRun, toast>>
       /\ browserIdle

\* FinanceApp.redirectToLogin, from the guest profile or the guest menu
redirectToLogin ==
    /\ app.page = "index"
    /\ localStorage' = removeGuest(localStorage)
    /\ auth' = constructedAuth
    /\ app' = [page |-> "login", isGuestMode |-> FALSE, currentUser |-> Null, console |-> <<>>]
    /\ UNCHANGED <<db, sessionStorage, nextTs, toast>>
    /\ ledgerIdle
    /\ browserIdle

\* FinanceApp.logout, confirmed: auth.logout(); the page is left a second later
appLogout ==
    /\ app.page = "index"
    /\ ~app.isGuestMode
    /\ auth.currentUser # Null
    /\ InstallWorld(logoutOf(W))
    /\ UNCHANGED <<app, nextTs, toast>>
    /\ ledgerIdle
    /\ browserIdle

\* AuthManager.deleteAccount: the user, the entries of the settings store
\* and of the auth store whose key starts with the user's id, then logout
deleteAccountOf(w) ==
    LET email == w.auth.currentUser[1].email
        userId == w.auth.currentUser[1].id
    IN logoutOf([w EXCEPT
                   !.auth.users = { e \in @ : e.key # email },
                   !.db.users = @ \ {email},
                   !.db.accounts = { u \in @ : u.email # email },
                   !.db.settings = { k \in @ : ~startsWith(k, userId) },
                   !.db.values = [k \in AllKeys |-> IF startsWith(k, userId) THEN Null ELSE @[k]],
                   !.db.auth = { k \in @ : ~startsWith(k, userId) }])

\* FinanceApp.deleteAccount, confirmed
appDeleteAccount ==
    /\ app.page = "index"
    /\ ~app.isGuestMode
    /\ auth.currentUser # Null
    /\ InstallWorld(deleteAccountOf(W))
    /\ UNCHANGED <<app, nextTs, toast>>
    /\ ledgerIdle
    /\ browserIdle

\* window.location.href = 'login.html'
loginPage ==
    /\ app.page # "login"
    /\ auth' = constructedAuth
    /\ app' = [page |-> "login", isGuestMode |-> FALSE, currentUser |-> Null, console |-> <<>>]
    /\ UNCHANGED <<db, localStorage, sessionStorage, nextTs, toast>>
    /\ ledgerIdle
    /\ browserIdle

\* the browser is closed: the session storage and the page are gone
endSession ==
    /\ app.page # "closed"
    /\ sessionStorage' = [currentUser |-> Null]
    /\ auth' = constructedAuth
    /\ app' = [page |-> "closed", isGuestMode |-> FALSE, currentUser |-> Null, console |-> <<>>]
    /\ UNCHANGED <<db, localStorage, nextTs, toast>>
    /\ ledgerIdle
    /\ browserIdle

\* handleTransactionSubmit of a new transaction, its add run to the end;
\* timestamp: Date.now()
submit(tpl) ==
    LET M == addOp(L, WithTs(tpl, now), TRUE)
    IN /\ app.page = "index"
       /\ initialized
       /\ now \notin timestampsOf(transactions)
       /\ IF insufficient(tpl)
          THEN /\ toast' = insufficientBalance(availableBalance)
               /\ UNCHANGED <<ledgerVars, db, nMut, mutRun>>
          ELSE /\ Install(M)
               /\ db' = storageWrite(db, "transactions", M.store.transactions)
               /\ Counted(1)
               /\ UNCHANGED toast
       /\ UNCHANGED <<localStorage, sessionStorage, auth, app, nextTs, inflight,
                      editingTimestamp, budgets, budgetsInitialized, rendered>>
       /\ browserIdle

\* handleBudgetSubmit: this.budgets.set(category, limit), then the panel
addBudget(category, limit) ==
    LET Bm == budgetSet(B, category, limit, TRUE)
    IN /\ app.page = "index"
       /\ budgetsInitialized
       /\ InstallBudgets(Bm)
       /\ rendered' = renderBudgets(Bm.budgets, getSpendingByCategory(L))
       /\ db' = storageWrite(db, "budgets", Bm.store.budgets)
       /\ UNCHANGED <<transactions, history, historyIndex, initialized, shifted,
                      localStorage, sessionStorage, auth, app, nextTs, inflight,
                      editingTimestamp, nMut, mutRun, toast>>
       /\ browserIdle

GuestTemplates ==
    { [type |-> "income", amount |-> 3, category |-> "salary", date |-> 89, recurring |-> FALSE] }

\* a third of the guest session's 24 hours
GuestTickHours == {8}

NextGuest ==
    \/ \E ok \in BOOLEAN : handleGuestMode(ok)
    \/ \E h \in GuestTickHours : now + h <= StartNow + MaxHours /\ tick(h)
    \/ start
    \/ redirectToLogin
    \/ handleLogin(John.email, John.password, FALSE)
    \/ appLogout
    \/ \E tpl \in GuestTemplates : nMut < MaxOps /\ submit(tpl)
    \/ \E category \in {"food"}, limit \in {5} : addBudget(category, limit)

SpecGuest == Init /\ [][NextGuest]_vars

Registrations == { [email |-> email, password |-> password] :
                     email \in Emails, password \in Passwords }

NextLogin ==
    \/ \E userData \in Registrations :
          nextTs < MaxTs + MaxUsers + 1 /\ handleRegister(userData)
    \/ \E userData \in Registrations, remember \in BOOLEAN :
          handleLogin(userData.email, userData.password, remember)
    \/ start
    \/ appLogout
    \/ appDeleteAccount
    \/ loginPage
    \/ endSession
    \/ \E tpl \in GuestTemplates : nMut < MaxOps /\ submit(tpl)
    \/ \E category \in {"food"}, limit \in {5} : addBudget(category, limit)

SpecLogin == Init /\ [][NextLogin]_vars

-----------------------------------------------------------------------------
(* Properties of the ledger *)

Range(f) == { f[i] : i \in DOMAIN f }

Last(s) == s[Len(s)]

isAddOfNew(e) == e.op = "add" /\ ~e.hit

\* C1. Undo/redo round trip: after add(T) of a transaction whose timestamp
\* was not in the live set, canUndo() is true; an undo() that follows
\* returns true, leaves T out of getAll() and makes canRedo() true; a redo()
\* that follows returns true and getAll() holds T again.
UndoRedoRoundTrip ==
    LET n == Len(log)
    IN /\ (n >= 1 /\ isAddOfNew(log[n])) => canUndo
       /\ (n >= 2 /\ isAddOfNew(log[n - 1]) /\ log[n].op = "undo")
             => /\ log[n].ret
                /\ log[n - 1].tx[1] \notin Range(getAll(L))
                /\ canRedo
       /\ (n >= 3 /\ isAddOfNew(log[n - 2]) /\ log[n - 1].op = "undo"
                  /\ log[n].op = "redo")
             => /\ log[n].ret
                /\ log[n - 2].tx[1] \in Range(getAll(L))

RoundTripDone ==
    /\ Len(log) = 3
    /\ isAddOfNew(log[1]) /\ log[2].op = "undo" /\ log[3].op = "redo"
    /\ log[2].ret /\ log[3].ret
    /\ log[1].tx[1] \in Range(getAll(L))
    /\ Len(transactions) >= 2

\* C2 as stated. undo() succeeds at most maxHistory - 1 times in a row, and
\* once more than maxHistory add/delete calls have been made the initially
\* loaded snapshot has been evicted.
EvictionAfterTwentyMutations ==
    /\ historyIndex <= maxHistory - 1
    /\ nMut > maxHistory => shifted

\* C2, amended. undo() succeeds at most maxHistory - 1 times in a row: the
\* cursor never exceeds maxHistory - 1, undo() succeeds exactly when the
\* cursor is positive and then lowers it by one.  Once maxHistory or more
\* add/delete calls have been made with no successful undo among them, the
\* initially loaded snapshot has been evicted.
EvictionBound ==
    /\ [](/\ historyIndex <= maxHistory - 1
          /\ mutRun > maxHistory => shifted)
    /\ [][undo => /\ result' = (historyIndex > 0)
                  /\ result' => historyIndex' = historyIndex - 1]_vars

EvictedAndFullyUndone ==
    /\ shifted
    /\ nMut > maxHistory
    /\ Len(history) = maxHistory
    /\ historyIndex = 0
    /\ result

\* C3. Linear history: an add or delete made while a redo future exists
\* (after successful undos) discards that future: right after it canRedo()
\* is false, and a redo() made then returns false and leaves the live set
\* as it was.
LinearHistory ==
    /\ [](Len(log) >= 1 /\ Last(log).op \in {"add", "delete"} /\ Last(log).hadRedo
            => ~canRedo)
    /\ [][(/\ Len(log) >= 1
           /\ Last(log).op \in {"add", "delete"}
           /\ Last(log).hadRedo
           /\ redo)
          => (result' = FALSE /\ transactions' = transactions)]_vars

RedoFutureDiscarded ==
    /\ Len(log) >= 3
    /\ log[Len(log) - 2].op = "undo" /\ log[Len(log) - 2].ret
    /\ log[Len(log) - 1].op \in {"add", "delete"} /\ log[Len(log) - 1].hadRedo
    /\ Last(log).op = "redo" /\ ~Last(log).ret

\* C4. History invariant: on an initialized ledger, after every completed
\* operation, 1 <= history.length <= maxHistory, 0 <= historyIndex <=
\* history.length - 1 and history[historyIndex] is the serialization of the
\* live set.
HistoryInvariant ==
    initialized =>
        /\ 1 <= Len(history) /\ Len(history) <= maxHistory
        /\ 0 <= historyIndex /\ historyIndex <= Len(history) - 1
        /\ history[historyIndex + 1] = JSONstringify(transactions)

FullHistoryMidCursor ==
    /\ initialized
    /\ shifted
    /\ Len(history) = maxHistory
    /\ canUndo /\ canRedo
    /\ Len(transactions) = 2

\* C5. A failed undo/redo is a no-op: with the cursor at 0, undo() returns
\* false and leaves the live set, the history, the cursor and the stored
\* transactions as they were; so does redo() with the cursor at
\* history.length - 1.
FailedUndoRedoIsNoOp ==
    [][/\ (undo /\ historyIndex = 0)
          => (result' = FALSE /\ UNCHANGED <<transactions, history, historyIndex, store>>)
       /\ (redo /\ historyIndex = Len(history) - 1)
          => (result' = FALSE /\ UNCHANGED <<transactions, history, historyIndex, store>>)]_vars

FailedUndoThenFailedRedo ==
    /\ Len(log) >= 2
    /\ log[Len(log) - 1].op = "undo" /\ ~log[Len(log) - 1].ret
    /\ Last(log).op = "redo" /\ ~Last(log).ret
    /\ log[Len(log) - 1].at = 0 /\ Last(log).at = 0
    /\ initialized /\ historyIndex = 0 /\ Len(history) = 1
    /\ store.transactions = Null

RECURSIVE SumAt(_, _)
SumAt(txs, I) ==
    IF I = {} THEN 0
    ELSE LET i == CHOOSE j \in I : TRUE
         IN txs[i].amount + SumAt(txs, I \ {i})

LiveSum(type) ==
    SumAt(transactions, { i \in 1..Len(transactions) : transactions[i].type = type })

\* C6. Stats reflect the live set: after every operation getStats().income
\* is the sum of the amounts of the live income transactions, expense that
\* of the live expense transactions, and balance = income - expense.
StatsReflectLiveSet ==
    /\ getStats(L).income = LiveSum("income")
    /\ getStats(L).expense = LiveSum("expense")
    /\ getStats(L).balance = LiveSum("income") - LiveSum("expense")

StatsAfterUndo ==
    /\ Len(log) >= 1 /\ Last(log).op = "undo" /\ Last(log).ret
    /\ getStats(L).income > 0
    /\ getStats(L).expense > 0
    /\ canRedo

\* the index of the j-th transaction of txs that is recurring and due
NthDue(txs, day, j) ==
    CHOOSE i \in 1..Len(txs) :
        /\ txs[i].recurring /\ isDue(txs[i], day)
        /\ Cardinality({ h \in 1..(i - 1) : txs[h].recurring /\ isDue(txs[h], day) }) = j - 1

-----------------------------------------------------------------------------
(* Properties of the application *)

\* C7: no two transactions of the live set share a timestamp, whatever the
\* user did through the application (form add, edit, delete, undo, redo,
\* merge import).
TimestampsUnique ==
    \A i, j \in DOMAIN transactions :
        i # j => transactions[i].timestamp # transactions[j].timestamp

\* C8: no two mutating ledger calls are in flight at the same time: a flow
\* starts its next call only when the previous one has persisted and
\* recorded history.
SerializedMutation == Len(inflight) <= 1

isClone(t) == t.recurring /\ t.date >= StartNow \div 24

\* C10: over page loads whose recurring checks go through the
\* lastRecurringCheck gate, a recurring transaction is cloned at most once on
\* one calendar day, and the live set holds exactly the clones made.
IdempotentRecurringGate ==
    /\ \A i, j \in DOMAIN cloneLog : i # j => cloneLog[i] # cloneLog[j]
    /\ Len(SelectSeq(transactions, isClone)) = Len(cloneLog)

\* C10 witness: two checks of the synchronous application on one day, the
\* first let through and cloning T0, the second held back with T0 still due.
SecondCheckSameDayHeldBack ==
    \E i, j \in DOMAIN gateLog :
        /\ i < j
        /\ gateLog[i][3] = "sync" /\ gateLog[j][3] = "sync"
        /\ gateLog[i][1] \div oneDay = gateLog[j][1] \div oneDay
        /\ gateLog[i][2] /\ ~gateLog[j][2]
        /\ gateLog[j][1] = now
        /\ <<T0.timestamp, today>> \in Range(cloneLog)
        /\ \E k \in DOMAIN transactions :
              transactions[k].timestamp = T0.timestamp /\ isDue(transactions[k], today)

\* C11: over gated recurring checks on successive days, the same recurring
\* transaction is never cloned by two checks less than one month apart.
OnceMonthlyRecurrence ==
    \A i, j \in DOMAIN cloneLog :
        i < j /\ cloneLog[i][1] = cloneLog[j][1]
            => AddMonth(cloneLog[i][2]) <= cloneLog[j][2]

\* C12: a page load that finds no lastRecurringCheck stored, or one more than
\* 24 hours old, runs processRecurring and stores lastRecurringCheck = now:
\* every recurring transaction due today is materialised at that load.
RecurringCheckOnLoad ==
    [][(/\ Len(gateLog') = Len(gateLog) + 1
        /\ \/ store.lastRecurringCheck = Null
           \/ now - store.lastRecurringCheck[1] > oneDay)
       => /\ Last(gateLog')[2]
          /\ store'.lastRecurringCheck = Some(now)
          /\ cloneLog' = cloneLog \o clonesMade(init(constructed(L)), today)
          /\ Len(transactions') = Len(init(constructed(L)).transactions)
                                    + dueCount(init(constructed(L)), today)]_vars

\* C13: while no store write has failed, a fresh ledger loading from the
\* store returns the live set, and once an operation has written, the value
\* stored under 'transactions' is the serialisation of the live set.
SurvivesReload ==
    failures = 0 /\ initialized
        => /\ getAll(constructed(L)) = getAll(L)
           /\ nMut > 0 => store.transactions = Some(JSONstringify(transactions))

\* C13 witness: a successful undo, every write having succeeded, left a
\* non-empty live set that a fresh ledger loads back.
ReloadedAfterUndo ==
    /\ failures = 0
    /\ log # <<>> /\ Last(log).op = "undo" /\ Last(log).ret
    /\ transactions # <<>>
    /\ getAll(constructed(L)) = transactions

\* a step of add, delete or processRecurring, or a successful undo or redo
Mutated == nMut' > nMut \/ (history' = history /\ historyIndex' # historyIndex)

\* C14: a store write that fails during add, delete, undo or redo leaves the
\* stored value alone and does not abort the operation: the live set, the
\* history and the cursor are updated as on success and the call returns as
\* usual; a mutating operation whose write succeeds leaves the stored
\* 'transactions' equal to the live set.
BestEffortDurability ==
    [][LET e == Last(log')
           before == init(L).transactions
           keep(t) == t.timestamp # e.ts
       IN /\ (failures' = failures + 1 /\ e.op \in {"add", "delete", "undo", "redo"})
             => /\ store'.transactions = store.transactions
                /\ e.op = "add" => transactions' = Append(before, e.tx[1])
                /\ e.op = "delete" => transactions' = SelectSeq(before, keep)
                /\ e.op \in {"add", "delete"}
                      => /\ historyIndex' = Len(history') - 1
                         /\ Last(history') = JSONstringify(transactions')
                /\ e.op = "undo"
                      => /\ result' /\ historyIndex' = historyIndex - 1
                         /\ transactions' = JSONparse(history[historyIndex])
                         /\ history' = history
                /\ e.op = "redo"
                      => /\ result' /\ historyIndex' = historyIndex + 1
                         /\ transactions' = JSONparse(history[historyIndex + 2])
                         /\ history' = history
          /\ (failures' = failures /\ Mutated)
             => store'.transactions = Some(JSONstringify(transactions'))]_vars

\* C14 witness: an add whose write failed, then a delete whose write
\* succeeded and brought the stored value back to the live set.
DivergedThenRepaired ==
    /\ Len(log) >= 2
    /\ log[Len(log) - 1].op = "add" /\ log[Len(log) - 1].failed
    /\ Last(log).op = "delete" /\ Last(log).hit /\ ~Last(log).failed
    /\ transactions # <<>>
    /\ store.transactions = Some(JSONstringify(transactions))

\* C15: delete(timestamp) with a timestamp that matches no live transaction
\* leaves the live set, the history and the cursor as they were.
NotFoundDeleteIsNoOp ==
    [][(nMut' = nMut + 1 /\ Last(log').op = "delete" /\ ~Last(log').hit /\ initialized)
       => UNCHANGED <<transactions, history, historyIndex>>]_vars

-----------------------------------------------------------------------------
(* Properties of the budget registry and the budget panel *)

\* the amounts of the expense transactions of category c, summed
RECURSIVE SpendOf(_, _)
SpendOf(txs, c) ==
    IF txs = <<>> THEN 0
    ELSE (IF Head(txs).type = "expense" /\ Head(txs).category = c THEN Head(txs).amount ELSE 0)
           + SpendOf(Tail(txs), c)

alertsOn(c) == { i \in DOMAIN rendered.alerts : rendered.alerts[i].category = c }

alertsOfType(c, type) == { i \in alertsOn(c) : rendered.alerts[i].type = type }

\* the panel shows status st for category c: the bar's class, and one alert
\* of that type (none for the status ok)
Shows(i, c, st) ==
    /\ rendered.items[i].progressClass = st
    /\ Cardinality(alertsOn(c)) = (IF st = "" THEN 0 ELSE 1)
    /\ alertsOfType(c, st) = alertsOn(c)

\* C16: for every budget with limit > 0 the panel shows exceeded with one
\* danger alert iff spent*100 >= 100*limit, warning with one warning alert
\* iff 80*limit <= spent*100 < 100*limit, and ok with no alert iff
\* spent*100 < 80*limit; no alert is about a category without a budget.
BudgetAlertThresholds ==
    /\ Len(rendered.items) = Len(budgets)
    /\ \A i \in DOMAIN budgets :
          LET c == budgets[i].key
              limit == budgets[i].value
              spent == SpendOf(transactions, c)
          IN limit > 0
               => /\ rendered.items[i].category = c
                  /\ rendered.items[i].spent = spent
                  /\ Shows(i, c, "danger") <=> spent * 100 >= 100 * limit
                  /\ Shows(i, c, "warning")
                        <=> (80 * limit <= spent * 100 /\ spent * 100 < 100 * limit)
                  /\ Shows(i, c, "") <=> spent * 100 < 80 * limit
    /\ \A j \in DOMAIN rendered.alerts : rendered.alerts[j].category \in keysOf(budgets)

\* C16 witness: one budget at exactly 80% of its limit in warning, another
\* category spent on without a budget, and no alert for it.
WarningAtEightyPercent ==
    /\ \E i \in DOMAIN budgets :
          /\ budgets[i].key = "food" /\ budgets[i].value = 5
          /\ SpendOf(transactions, "food") = 4
          /\ Shows(i, "food", "warning")
    /\ ~hasKey(budgets, "rent")
    /\ SpendOf(transactions, "rent") > 0

\* C17: a budget whose limit is 0 shows exceeded, with a danger alert, when
\* the category's spend is > 0, and ok, with no alert, when it is 0.
ZeroLimitGuard ==
    \A i \in DOMAIN budgets :
        LET c == budgets[i].key
            spent == SpendOf(transactions, c)
        IN budgets[i].value = 0
             => /\ rendered.items[i].spent = spent
                /\ spent > 0 => Shows(i, c, "danger")
                /\ spent = 0 => Shows(i, c, "")

\* C17 witness: two budgets of limit 0, one spent on and shown exceeded, the
\* other not spent on and shown ok.
ZeroLimitBothCases ==
    \E i, j \in DOMAIN budgets :
        /\ budgets[i].value = 0 /\ budgets[j].value = 0
        /\ SpendOf(transactions, budgets[i].key) > 0 /\ Shows(i, budgets[i].key, "danger")
        /\ SpendOf(transactions, budgets[j].key) = 0 /\ Shows(j, budgets[j].key, "")

warningAlerts == { j \in DOMAIN rendered.alerts : rendered.alerts[j].type = "warning" }

limitOf(c) == objGet(budgets, c)[1]

\* C18: the percentage a warning message shows is floor(spent / limit * 100),
\* an integer in 80..99.
FlooredWarningPercentage ==
    \A j \in warningAlerts :
        LET c == rendered.alerts[j].category
            n == rendered.alerts[j].shown[1]
        IN /\ n * limitOf(c) <= SpendOf(transactions, c) * 100
           /\ SpendOf(transactions, c) * 100 < (n + 1) * limitOf(c)
           /\ n \in 80..99

\* C18 as amended: the percentage a warning message shows is
\* spent / limit * 100 rounded to the nearest integer, a half rounded up,
\* an integer in 80..100.
RoundedWarningPercentage ==
    \A j \in warningAlerts :
        LET c == rendered.alerts[j].category
            n == rendered.alerts[j].shown[1]
        IN /\ (2 * n - 1) * limitOf(c) <= SpendOf(transactions, c) * 200
           /\ SpendOf(transactions, c) * 200 < (2 * n + 1) * limitOf(c)
           /\ n \in 80..100

\* C18 witness: a budget at 99.5% of its limit, in warning, shown as 100%.
WarningShowsHundred ==
    \E j \in warningAlerts :
        /\ rendered.alerts[j].category = "food"
        /\ limitOf("food") = 200 /\ SpendOf(transactions, "food") = 199
        /\ rendered.alerts[j].shown = Some(100)

\* C19: get(c) returns the limit most recently set for c, and nil only if c
\* is absent; getAll() lists exactly the present categories with their limits.
BudgetMapSemantics ==
    /\ got # Null
          => got[1].value = (IF got[1].category \in DOMAIN expected
                             THEN Some(expected[got[1].category]) ELSE Null)
    /\ { <<budgetGetAll(B)[i].key, budgetGetAll(B)[i].value>> : i \in DOMAIN budgetGetAll(B) }
          = { <<c, expected[c]>> : c \in DOMAIN expected }
    /\ Cardinality(keysOf(budgetGetAll(B))) = Len(budgetGetAll(B))

\* C20: getSpendingByCategory() has as keys exactly the categories of the
\* live expense transactions, each with the sum of their amounts.
SpendByCategoryExact ==
    LET spending == getSpendingByCategory(L)
        live == init(L).transactions
    IN /\ keysOf(spending)
            = { live[i].category : i \in { k \in DOMAIN live : live[k].type = "expense" } }
       /\ Cardinality(keysOf(spending)) = Len(spending)
       /\ \A i \in DOMAIN spending : spending[i].value = SpendOf(live, spending[i].key)

\* C20 witness: two food expenses and an income of category rent: food is
\* the only key, with the sum of the two.
FoodOnlySpending ==
    /\ initialized
    /\ \E i \in DOMAIN transactions :
          transactions[i].type = "income" /\ transactions[i].category = "rent"
    /\ getSpendingByCategory(L) = <<[key |-> "food", value |-> 5]>>
    /\ Len(transactions) = 3

-----------------------------------------------------------------------------
(* Properties of the views *)

\* C21: getSpendingTrend() returns exactly 7 entries, dated today-6 .. today
\* in this order, each with the sum of the expenses dated that day.
TrendCompleteness ==
    [][trend' # trend
       => /\ Len(trend'.entries) = 7
          /\ \A k \in 1..7 :
                /\ trend'.entries[k].date = today - 7 + k
                /\ trend'.entries[k].amount
                     = SumAt(transactions',
                             { i \in DOMAIN transactions' :
                                  /\ transactions'[i].type = "expense"
                                  /\ transactions'[i].date = today - 7 + k })]_vars

scored == health[1].result

\* the transactions the score was computed from
scoredFrom == health[1].transactions

\* C22: score = savingsRate + budgetAdherence + emergencyFund +
\* spendingConsistency + debtRatio, the sub-scores within 0..30, 0..25, 0..20
\* and 0..15 and debtRatio = 10: the score is an integer in 0..100.
HealthScoreComposition ==
    health # Null
      => /\ scored.score = scored.breakdown.savingsRate + scored.breakdown.budgetAdherence
                             + scored.breakdown.emergencyFund
                             + scored.breakdown.spendingConsistency
                             + scored.breakdown.debtRatio
         /\ scored.breakdown.savingsRate \in 0..30
         /\ scored.breakdown.budgetAdherence \in 0..25
         /\ scored.breakdown.emergencyFund \in 0..20
         /\ scored.breakdown.spendingConsistency \in 0..15
         /\ scored.breakdown.debtRatio = 10
         /\ scored.score \in 0..100

\* C22 witness: a score of 100, every sub-score at its maximum.
FullScore ==
    /\ health # Null
    /\ scored.score = 100
    /\ scored.breakdown = [savingsRate |-> 30, budgetAdherence |-> 25, emergencyFund |-> 20,
                           spendingConsistency |-> 15, debtRatio |-> 10]
    /\ Len(scoredFrom) = MaxSample

\* the scored expenses dated no earlier than 30 days before now
qualifying == { i \in DOMAIN scoredFrom :
                  scoredFrom[i].type = "expense" /\ scoredFrom[i].date * 24 >= now - 30 * 24 }

\* the tier of the coefficient of variation of the qualifying expenses:
\* cv <= k iff n * Q * 10000 <= (10000 + k * k) * S * S
cvTier ==
    LET n == Cardinality(qualifying)
        S == SumAt(scoredFrom, qualifying)
        sq == [i \in DOMAIN scoredFrom |-> [amount |-> scoredFrom[i].amount * scoredFrom[i].amount]]
        Q == SumAt(sq, qualifying)
        within(k) == n * Q * 10000 <= (10000 + k * k) * S * S
    IN IF within(20) THEN 15 ELSE IF within(40) THEN 12 ELSE IF within(60) THEN 9
       ELSE IF within(80) THEN 6 ELSE IF within(100) THEN 3 ELSE 0

\* C23: the spending-consistency sub-score is 15 when fewer than 5 expenses
\* are dated within the trailing 30 days, and the tier of their coefficient
\* of variation whenever there are at least 5, whatever the total number of
\* transactions.
ConsistencyDefault ==
    health # Null
      => scored.breakdown.spendingConsistency
           = (IF Cardinality(qualifying) < 5 THEN 15 ELSE cvTier)

\* C23 as amended: the sub-score is 15 when the list holds fewer than 7
\* transactions or fewer than 5 qualifying expenses, and the tier of the
\* coefficient of variation otherwise.
ConsistencyDefaultOfSeven ==
    health # Null
      => scored.breakdown.spendingConsistency
           = (IF Len(scoredFrom) < 7 \/ Cardinality(qualifying) < 5 THEN 15 ELSE cvTier)

\* C23 witness: 7 transactions, 5 of them recent expenses, scored by tier.
ScoredByTier ==
    /\ health # Null
    /\ Len(scoredFrom) = 7 /\ Cardinality(qualifying) = 5
    /\ scored.breakdown.spendingConsistency = 0

\* C24: with page size 10 and n transactions, totalPages = ceil(n / 10),
\* page p of 1..totalPages shows exactly the positions 10(p-1) ..
\* min(10p, n) - 1, and any page outside 1..totalPages shows nothing.
PaginationPartition ==
    pageShown # Null
      => LET shown == pageShown[1]
             n == Len(shown.of)
             pages == IF n = 0 THEN 0 ELSE ((n - 1) \div 10) + 1
             first == 10 * (shown.page - 1)
             last == Min(10 * shown.page, n) - 1
         IN /\ shown.totalPages = pages
            /\ IF shown.page \in 1..pages
               THEN shown.items = [k \in 1..(last - first + 1) |-> shown.of[first + k]]
               ELSE shown.items = <<>>

\* the balance of the live set, plus the amount of the expense being edited
balanceToSpend ==
    LET ofType(ty) == { i \in DOMAIN transactions : transactions[i].type = ty }
        edited == { i \in DOMAIN transactions :
                      /\ editingTimestamp # Null
                      /\ transactions[i].timestamp = editingTimestamp[1] }
        old == IF edited = {} THEN 0
               ELSE LET i == CHOOSE k \in edited : \A j \in edited : k <= j
                    IN IF transactions[i].type = "expense" THEN transactions[i].amount ELSE 0
    IN SumAt(transactions, ofType("income")) - SumAt(transactions, ofType("expense")) + old

\* the expense a form submission starts to enter in this step, if any
submittedExpense ==
    IF Len(inflight') # Len(inflight) + 1 THEN Null
    ELSE LET c == inflight'[Len(inflight')]
         IN IF c.op = "add" /\ c.ts = nextTs /\ c.tx[1].type = "expense" THEN c.tx
            ELSE IF c.op = "delete" /\ c.next # <<>> /\ c.next[1].tx[1].type = "expense"
            THEN c.next[1].tx
            ELSE Null

\* C28: a form submission of an expense whose amount exceeds the available
\* balance (the balance, plus the old amount when an expense is edited) is
\* rejected with an error message before any mutation: no expense above the
\* available balance is entered, and the rejection shows the available
\* balance and leaves the live set, the history, the cursor, the store, the
\* calls in flight and the edit mode as they were.
InsufficientBalanceRejection ==
    [][/\ submittedExpense # Null => submittedExpense[1].amount <= balanceToSpend
       /\ (toast' # toast /\ toast' # Null)
            => /\ toast' = Some([message |-> "Insufficient balance!",
                                 available |-> balanceToSpend])
               /\ \E tpl \in Templates : tpl.type = "expense" /\ tpl.amount > balanceToSpend
               /\ UNCHANGED <<transactions, history, historyIndex, store, inflight,
                              editingTimestamp>>]_vars

\* C28 witness: the stored expense of 1 is being edited, the balance is -1,
\* and an expense was rejected with 0 available; the edited transaction is
\* still in the live set.
RejectedWhileEditing ==
    /\ toast = Some([message |-> "Insufficient balance!", available |-> 0])
    /\ editingTimestamp = Some(T0.timestamp)
    /\ transactions = <<T0>>
    /\ nMut = 0 /\ inflight = <<>>

-----------------------------------------------------------------------------
(* Properties of import and deletion *)

\* a transaction of a file that misses a field or has a type other than
\* income and expense
malformed(t) ==
    \/ t.type = "" \/ t.amount = 0 \/ t.category = "" \/ t.date = 0
    \/ t.type \notin {"income", "expense"}

\* a file the import has to reject: transactions that are not an array,
\* budgets that are not a plain map, or a malformed transaction
toReject(file) ==
    \/ file.data.transactions.kind \notin {"undefined", "array"}
    \/ file.data.budgets.kind \notin {"undefined", "object"}
    \/ /\ file.data.transactions.kind = "array"
       /\ \E i \in DOMAIN file.data.transactions.items :
             malformed(file.data.transactions.items[i])

\* C25: an import whose payload has a malformed transaction, transactions
\* that are not an array or budgets that are not a plain map is rejected:
\* the live set, the history, the budget registry and the store are not
\* changed, and no ledger call is started.
ImportAllOrNothing ==
    [][\A file \in ImportFiles :
          toReject(file) /\ handleImportData(file)
            => /\ UNCHANGED <<transactions, history, historyIndex, budgets, store>>
               /\ inflight' = inflight]_vars

\* the callback the confirm modal holds, when it is of the given flow
confirming(flow) == confirmCallback # Null /\ confirmCallback[1].run = flow

\* C26: when a confirmed replace-mode import of a valid payload has
\* completed, the live set is exactly the payload's transactions and the
\* budget registry exactly the payload's budgets.
ReplaceModeImport ==
    [][(confirming("processImportData") /\ inflight = <<>> /\ handleConfirmYes /\ inflight' = <<>>)
         => LET data == confirmCallback[1].data
                payload == transactionsOf(data)
            IN /\ transactions' = [i \in DOMAIN payload |-> importedTransaction(payload, i)]
               /\ budgets' = budgetsOf(data)]_vars

\* C29: when the user confirms Delete All on a ledger of n >= 1
\* transactions, the flow completes with an empty live set and an empty
\* stored list.
DeleteAllEmpties ==
    [][(confirming("deleteAll") /\ Len(transactions) >= 1 /\ inflight = <<>>
          /\ handleConfirmYes /\ inflight' = <<>>)
         => /\ transactions' = <<>>
            /\ store'.transactions = Some(JSONstringify(<<>>))]_vars

-----------------------------------------------------------------------------
(* Properties of the export *)

\* Standard double-quoted CSV: a field that opens with a quote runs to the
\* next quote that is not doubled, a doubled quote standing for one quote;
\* fields end at a comma and records at a line break outside quotes.
RECURSIVE parseFrom(_, _, _, _, _, _)
parseFrom(text, i, mode, cell, row, rows) ==
    IF i > Len(text)
    THEN IF mode = "start" /\ row = <<>> THEN rows ELSE Append(rows, Append(row, cell))
    ELSE LET c == text[i]
             endField == parseFrom(text, i + 1, "start", <<>>, Append(row, cell), rows)
             endRecord == parseFrom(text, i + 1, "start", <<>>, <<>>,
                                    Append(rows, Append(row, cell)))
             take(next) == parseFrom(text, i + 1, next, Append(cell, c), row, rows)
         IN CASE mode = "quoted" ->
                    IF c = Quote THEN parseFrom(text, i + 1, "closing", cell, row, rows)
                    ELSE take("quoted")
              [] mode = "closing" ->
                    IF c = Quote THEN take("quoted")
                    ELSE IF c = Comma THEN endField
                    ELSE IF c = LineBreak THEN endRecord
                    ELSE take("plain")
              [] OTHER ->
                    IF c = Quote /\ mode = "start"
                    THEN parseFrom(text, i + 1, "quoted", cell, row, rows)
                    ELSE IF c = Comma THEN endField
                    ELSE IF c = LineBreak THEN endRecord
                    ELSE take("plain")

parseCSV(text) == parseFrom(text, 1, "start", <<>>, <<>>, <<>>)

\* C27: parsing the rows written by toCSV as standard double-quoted CSV
\* gives back the (date, type, category, amount, description, recurring)
\* tuples of the transactions, recurring as Yes/No, whatever quotes, commas
\* and line breaks the descriptions contain.
CsvRoundTrip ==
    exported.csv # Null
      => Tail(parseCSV(exported.csv[1]))
           = [i \in DOMAIN exported.transactions |->
                LET t == exported.transactions[i]
                IN << <<ToString(t.date)>>, <<t.type>>, <<t.category>>, <<ToString(t.amount)>>,
                      t.description, <<IF t.recurring THEN "Yes" ELSE "No">> >>]

-----------------------------------------------------------------------------
(* Properties of the accounts *)

\* C30: after deleteAccount no stored value of the user remains: the user
\* record is gone and so are the user's 'transactions', 'budgets' and
\* 'lastRecurringCheck' entries written through the storage layer.
AccountDeletionRemovesData ==
    [][deleteAccount
         => /\ db.currentUser[1].email \notin db'.users
            /\ \A key \in {"transactions", "budgets", "lastRecurringCheck"} :
                  <<"finance_tracker_", db.currentUser[1].id, "_", key>> \notin db'.settings]_vars

-----------------------------------------------------------------------------
(* Properties of the history under calls made back-to-back *)

\* the snapshot under the cursor
snapshotAt(h, index) == JSONparse(h[index + 1])

\* C33: every add or delete call pushes exactly one snapshot, and it is the
\* live set right after that call's own mutation: the snapshot a call pushes
\* differs from the snapshot before it by that call's mutation alone, so k
\* calls issued back-to-back give k undo steps, one mutation each.
OneSnapshotPerMutation ==
    [][\A i \in DOMAIN inflight :
          (inflight[i].pc = "history" /\ inflight[i].op \in {"add", "delete"}
             /\ historyIndex >= 0 /\ resume(i))
            => LET before == snapshotAt(history, historyIndex)
                   kept(t) == t.timestamp # inflight[i].ts
               IN /\ historyIndex' = Min(historyIndex + 1, maxHistory - 1)
                  /\ snapshotAt(history', historyIndex')
                       = IF inflight[i].op = "add"
                         THEN Append(before, inflight[i].tx[1])
                         ELSE SelectSeq(before, kept)]_vars

-----------------------------------------------------------------------------
(* Properties of the form *)

\* the ledger once a call, and the call it is followed by, have mutated it
mutatedBy(M, c) ==
    LET own == IF c.op = "add" THEN push(M, c.tx[1]) ELSE filterOut(M, c.ts)
    IN IF c.next = <<>> THEN own ELSE push(own, c.next[1].tx[1])

\* C36: an accepted form submission made with a balance of at least 0 leaves
\* a balance of at least 0, for a new transaction and for an edit (an income
\* turned into an expense or lowered included).
SubmissionKeepsBalance ==
    [][\A tpl \in Templates :
          (inflight = <<>> /\ getStats(L).balance >= 0
             /\ handleTransactionSubmit(tpl) /\ Len(inflight') = 1)
            => getStats(mutatedBy(L, inflight'[1])).balance >= 0]_vars

-----------------------------------------------------------------------------
(* Properties of an edit under undo *)

\* the ledger once the delete and the add of an edit have run, one after the
\* other: await this.transactions.delete(...); await this.transactions.add(...)
editedBy(M, ts, T) == addOp(deleteOp(M, ts, TRUE), T, TRUE)

\* an edit of a live transaction is accepted while no call is in flight
editAccepted(tpl) ==
    /\ inflight = <<>>
    /\ editingTimestamp # Null
    /\ editingTimestamp[1] \in timestampsOf(transactions)
    /\ handleTransactionSubmit(tpl)
    /\ Len(inflight') = 1

\* C37 as stated: after an accepted edit of T into T', a single undo restores
\* the live set the edit found, T present and T' absent.
EditIsOneUndoStep ==
    [][\A tpl \in Templates :
          editAccepted(tpl)
            => LET edited == editedBy(L, editingTimestamp[1], formTransaction(tpl))
               IN undoOp(edited, TRUE).transactions = transactions]_vars

\* C37: an accepted edit of T into T', run with no other call in flight, is
\* two undo steps: the first undo exposes the live set with T removed, which
\* holds neither T nor T', and the second restores the live set the edit
\* found, T present and T' absent.
EditIsTwoUndoSteps ==
    [][\A tpl \in Templates :
          editAccepted(tpl)
            => LET ts == editingTimestamp[1]
                   edited == editedBy(L, ts, formTransaction(tpl))
                   once == undoOp(edited, TRUE)
                   twice == undoOp(once, TRUE)
               IN /\ formTransaction(tpl) = edited.transactions[Len(edited.transactions)]
                  /\ once.transactions = filterOut(L, ts).transactions
                  /\ ts \notin timestampsOf(once.transactions)
                  /\ twice.transactions = transactions]_vars

\* an edit has run to its end: the snapshot under the cursor holds T', the one
\* below it neither T nor T', and the one below that T
EditRecorded ==
    /\ inflight = <<>>
    /\ historyIndex >= 2
    /\ \E a \in DOMAIN transactions :
         LET ts == transactions[a].timestamp
             before == snapshotAt(history, historyIndex - 2)
         IN /\ snapshotAt(history, historyIndex) = transactions
            /\ ts \notin timestampsOf(snapshotAt(history, historyIndex - 1))
            /\ \E b \in DOMAIN before :
                 before[b].timestamp = ts /\ before[b] # transactions[a]

-----------------------------------------------------------------------------
(* Properties of the first load *)

\* C38: loadFromStorage takes effect at most once per instance, whatever the
\* number of calls made before the first init() has finished: the load that
\* assigns the live set finds the history empty, so the history is seeded
\* with one snapshot, and every transaction in the live set before the load
\* is in it after, so no transaction an add has pushed is overwritten.
InitializationOnce ==
    [][\A i \in DOMAIN inflight :
          (inflight[i].pc = "get" /\ afterGet(i))
            => /\ history = <<>>
               /\ \A a \in DOMAIN transactions :
                    transactions[a].timestamp \in timestampsOf(transactions')]_vars

-----------------------------------------------------------------------------
(* Properties of the budget list against the health score *)

\* C39: a budgeted category is shown as exceeded by renderBudgets
\* (spent / limit * 100 >= 100) exactly when calculateBudgetAdherence does not
\* count it as within budget, which it tells by scoring the category alone
\* below 25.
AlertAndHealthScoreAgree ==
    LET spending == getSpendingByCategory(L)
        shown == renderBudgets(budgets, spending)
    IN \A i \in DOMAIN budgets :
          (shown.items[i].progressClass = "danger")
            <=> (calculateBudgetAdherence(<<budgets[i]>>, spending) # 25)

-----------------------------------------------------------------------------
(* Properties of guest mode *)

\* C31: guest data does not outlive the guest session it was written in by
\* more than 24 hours: when the application starts in guest mode, the ledger
\* it loads holds no transaction written more than 24 hours before the guest
\* session began, a session older than 24 hours having expired.
GuestDataExpiry ==
    [][(start /\ app'.isGuestMode)
         => \A i \in DOMAIN transactions' :
               parseInt(localStorage'.guestSession[1]) - transactions'[i].timestamp
                 <= twentyFourHours]_vars

\* C34: the application starts in guest mode exactly when the guest flag is
\* set and a guest session timestamp at most 24 hours old is stored; with an
\* expired timestamp, or a flag without timestamp, the guest flags are removed
\* and index.html is shown only to a valid saved login.
GuestAccessWindow ==
    [][start
         => LET flag == localStorage.guestMode = Some("true")
                stamped == localStorage.guestSession # Null
                valid == flag /\ stamped
                           /\ now - parseInt(localStorage.guestSession[1]) <= twentyFourHours
                loggedIn == /\ db.currentUser # Null
                            /\ (db.rememberMe = Null \/ now <= db.rememberMe[1])
            IN /\ app'.isGuestMode <=> valid
               /\ (flag /\ ~valid)
                    => /\ localStorage'.guestMode = Null
                       /\ localStorage'.guestSession = Null
               /\ ~valid => (app'.page = "index" <=> loggedIn)
               /\ ~valid /\ loggedIn => app'.currentUser = db.currentUser]_vars

\* an expired guest session was turned away and its flags removed
ExpiredGuestTurnedAway ==
    /\ app.page = "login"
    /\ app.console = <<"Clearing expired guest session data",
                       "No authentication found, redirecting to login...">>
    /\ localStorage.guestMode = Null
    /\ localStorage.guestSession = Null

-----------------------------------------------------------------------------
(* Properties of the login *)

\* C32: a login made with remember = false lasts for the browser session:
\* once the session storage is empty again and no remembered login is stored,
\* a start of the application finds no login and shows the login page.
SessionOnlyLogin ==
    [][(start /\ sessionStorage.currentUser = Null /\ localStorage.currentUser = Null
          /\ localStorage.guestMode = Null)
         => app'.page = "login"]_vars

\* C40: whenever register() succeeds, for an email in any letter case, the
\* login() that follows it with the same email and password succeeds.
RegisterThenLogin ==
    [][\A userData \in Registrations :
          (handleRegister(userData) /\ registerOf(W, userData).threw = Null)
            => /\ sessionStorage'.currentUser # Null
               /\ sessionStorage'.currentUser[1].email = toLowerCase(userData.email)]_vars

-----------------------------------------------------------------------------
(* Properties of the users' storage *)

\* the keys of the settings store that hold the data of the user id
keysOfUser(id) ==
    { <<"finance_tracker_", id, "_", key>> :
        key \in {"transactions", "budgets", "lastRecurringCheck"} }

\* C35: while a user is logged in, the page reads and writes the ledger, the
\* budgets and lastRecurringCheck under keys that carry the user's id: a
\* step taken in the user's session changes no entry of the settings store
\* outside the user's keys, and a session of the user starts from the entries
\* under the user's keys, so nothing another user does changes what it reads.
PerUserIsolation ==
    [][/\ \A id \in UserIds :
            (app.page = "index" /\ auth.currentUser # Null /\ app.currentUser = auth.currentUser
               /\ auth.currentUser[1].id = id)
              => \A key \in AllKeys \ keysOfUser(id) : db'.values[key] = db.values[key]
       /\ \A id \in UserIds :
            (start /\ app'.currentUser # Null /\ app'.currentUser[1].id = id)
              => /\ store'.transactions = db.values[<<"finance_tracker_", id, "_", "transactions">>]
                 /\ store'.budgets = db.values[<<"finance_tracker_", id, "_", "budgets">>]
                 /\ store'.lastRecurringCheck
                      = db.values[<<"finance_tracker_", id, "_", "lastRecurringCheck">>]]_vars

\* two users have each saved a ledger, and one of them is logged in
TwoUsersStored ==
    /\ app.page = "index"
    /\ app.currentUser # Null
    /\ app.currentUser = auth.currentUser
    /\ \E other \in UserIds \ {app.currentUser[1].id} :
          /\ db.values[<<"finance_tracker_", other, "_", "transactions">>] # Null
          /\ db.values[<<"finance_tracker_", app.currentUser[1].id, "_", "transactions">>] # Null
          /\ db.values[<<"finance_tracker_", app.currentUser[1].id, "_", "budgets">>] # Null

=============================================================================
